---- MODULE Spec2Model ----
(***************************************************************************)
(* The instruction-execution core of the 6502 emulator (src/src/cpu.rs):   *)
(* CPU registers and flags, the stack engine, the addressing resolver, the *)
(* per-instruction handlers and the dispatch loop run_with_callback.       *)
(*                                                                         *)
(* Handlers are `&mut self` methods: each is an operator from a CPU record *)
(* to the CPU record it leaves behind.  The dispatch loop is the state     *)
(* machine: Execute (fetch, decode, the match arm), Advance (the `if` after *)
(* the match) and Callback (the observer call).                            *)
(***************************************************************************)
EXTENDS Integers, Sequences, FiniteSets, TLC

VARIABLES
    register_a,             \* CPU.register_a : u8
    register_x,             \* CPU.register_x : u8
    register_y,             \* CPU.register_y : u8
    status,                 \* CPU.status : u8
    program_counter,        \* CPU.program_counter : u16
    stack_pointer,          \* CPU.stack_pointer : u8
    bus,                    \* CPU.bus : the memory behind mem_read / mem_write
    overflow_checks,        \* build profile: TRUE = `+` panics on overflow, FALSE = it wraps
    phase,                  \* position in run_with_callback
    code,                   \* loop local `code`
    program_counter_state,  \* loop local `program_counter_state`
    before,                 \* the CPU as it was when the current iteration began
    trace,                  \* one entry per dispatched instruction: opcode, its address, the stack pointer
    callbacks,              \* how many times the callback has been invoked
    data,                   \* argument of a method called directly (a word, a program, a mode)
    popped                  \* return value of a method called directly

vars == <<register_a, register_x, register_y, status, program_counter, stack_pointer,
          bus, overflow_checks, phase, code, program_counter_state, before, trace,
          callbacks, data, popped>>

(***************************************************************************)
(* Bounds of the model.                                                    *)
(***************************************************************************)
\* instructions dispatched in one run of the loop
MaxSteps == 3

(***************************************************************************)
(* Fixed-width arithmetic.                                                 *)
(***************************************************************************)
Byte == 0..255
U8(n) == n % 256
U16(n) == n % 65536
\* `v as i8`
AsI8(v) == IF v >= 128 THEN v - 256 ELSE v
\* `i as u8` for an i8
I8AsU8(i) == IF i < 0 THEN i + 256 ELSE i
\* `i as u16` for an i8 (sign extension)
I8AsU16(i) == IF i < 0 THEN i + 65536 ELSE i
\* i8::wrapping_neg and i8::wrapping_sub
I8Wrap(n) == ((n + 128) % 256) - 128
Pow2(i) == 2 ^ i
Bit(v, i) == (v \div Pow2(i)) % 2
BitAnd(a, b) ==
    LET t(i) == (Bit(a, i) * Bit(b, i)) * Pow2(i)
    IN  t(0) + t(1) + t(2) + t(3) + t(4) + t(5) + t(6) + t(7)
BitOr(a, b) ==
    LET t(i) == (IF Bit(a, i) + Bit(b, i) > 0 THEN 1 ELSE 0) * Pow2(i)
    IN  t(0) + t(1) + t(2) + t(3) + t(4) + t(5) + t(6) + t(7)
BitXor(a, b) ==
    LET t(i) == ((Bit(a, i) + Bit(b, i)) % 2) * Pow2(i)
    IN  t(0) + t(1) + t(2) + t(3) + t(4) + t(5) + t(6) + t(7)
\* u8 `value << 1` and `value >> 1`
Shl1(v) == (2 * v) % 256
Shr1(v) == v \div 2

(***************************************************************************)
(* Memory port.  The bus itself is not part of cpu.rs: it is a flat        *)
(* byte-addressable memory whose unwritten cells read 0.                   *)
(***************************************************************************)
mem_read(c, addr) == IF addr \in DOMAIN c.bus THEN c.bus[addr] ELSE 0

mem_write(c, addr, value) ==
    [c EXCEPT !.bus = [x \in (DOMAIN c.bus) \cup {addr} |->
                          IF x = addr THEN value ELSE c.bus[x]]]

\* `pos + 1` in mem_read_u16 / mem_write_u16 overflows at 0xFFFF
u16_overflows(c, n) == c.overflow_checks /\ n > 65535

mem_read_u16(c, pos) ==
    LET lo == mem_read(c, pos)
        hi == mem_read(c, U16(pos + 1))
    IN  hi * 256 + lo

mem_write_u16(c, pos, value) ==
    LET hi == value \div 256
        lo == value % 256
    IN  mem_write(mem_write(c, pos, lo), U16(pos + 1), hi)

(***************************************************************************)
(* Opcode table (opcodes::OPCODES_MAP): addressing mode and length.        *)
(***************************************************************************)
ImmediateOps == {105, 41, 201, 224, 192, 73, 169, 162, 160, 9, 233}
ZeroPageOps == {101, 37, 6, 36, 197, 228, 196, 198, 69, 230, 165, 166, 164, 70, 5,
                38, 102, 229, 133, 134, 132}
ZeroPageXOps == {117, 53, 22, 213, 214, 85, 246, 181, 180, 86, 21, 54, 118, 245, 149, 148}
ZeroPageYOps == {182, 150}
AbsoluteOps == {109, 45, 14, 44, 205, 236, 204, 206, 77, 238, 173, 174, 172, 78, 13,
                46, 110, 237, 141, 142, 140}
AbsoluteXOps == {125, 61, 30, 221, 222, 93, 254, 189, 188, 94, 29, 62, 126, 253, 157}
AbsoluteYOps == {121, 57, 217, 89, 185, 190, 25, 249, 153}
IndirectXOps == {97, 33, 193, 65, 161, 1, 225, 129}
IndirectYOps == {113, 49, 209, 81, 177, 17, 241, 145}
ImpliedOps == {0, 234, 170, 138, 168, 152, 186, 154, 232, 200, 202, 136, 10, 74, 42, 106,
               72, 8, 104, 40, 96, 64, 24, 216, 88, 184, 56, 248, 120}
BranchOps == {144, 176, 240, 48, 208, 16, 80, 112}
JumpOps == {76, 108, 32}

OPCODES_MAP ==
    [op \in ImmediateOps \cup ZeroPageOps \cup ZeroPageXOps \cup ZeroPageYOps
            \cup AbsoluteOps \cup AbsoluteXOps \cup AbsoluteYOps \cup IndirectXOps
            \cup IndirectYOps \cup ImpliedOps \cup BranchOps \cup JumpOps |->
        CASE op \in ImmediateOps -> [mode |-> "Immediate", len |-> 2]
          [] op \in ZeroPageOps -> [mode |-> "ZeroPage", len |-> 2]
          [] op \in ZeroPageXOps -> [mode |-> "ZeroPage_X", len |-> 2]
          [] op \in ZeroPageYOps -> [mode |-> "ZeroPage_Y", len |-> 2]
          [] op \in AbsoluteOps -> [mode |-> "Absolute", len |-> 3]
          [] op \in AbsoluteXOps -> [mode |-> "Absolute_X", len |-> 3]
          [] op \in AbsoluteYOps -> [mode |-> "Absolute_Y", len |-> 3]
          [] op \in IndirectXOps -> [mode |-> "Indirect_X", len |-> 2]
          [] op \in IndirectYOps -> [mode |-> "Indirect_Y", len |-> 2]
          [] op \in ImpliedOps -> [mode |-> "NoneAddressing", len |-> 1]
          [] op \in BranchOps -> [mode |-> "NoneAddressing", len |-> 2]
          [] op \in JumpOps -> [mode |-> "NoneAddressing", len |-> 3]]

(***************************************************************************)
(* Addressing resolver.                                                    *)
(***************************************************************************)
\* the resolver reading the high byte of the Indirect,X pointer without the zero-page wrap
get_operand_address_past_zero_page(c, mode) ==
    CASE mode = "Immediate" -> c.program_counter
      [] mode = "ZeroPage" -> mem_read(c, c.program_counter)
      [] mode = "Absolute" -> mem_read_u16(c, c.program_counter)
      [] mode = "ZeroPage_X" -> U8(mem_read(c, c.program_counter) + c.register_x)
      [] mode = "ZeroPage_Y" -> U8(mem_read(c, c.program_counter) + c.register_y)
      [] mode = "Absolute_X" -> U16(mem_read_u16(c, c.program_counter) + c.register_x)
      [] mode = "Absolute_Y" -> U16(mem_read_u16(c, c.program_counter) + c.register_y)
      [] mode = "Indirect_X" ->
            LET base == mem_read(c, c.program_counter)
                ptr == U8(base + c.register_x)
                lo == mem_read(c, ptr)
                hi == mem_read(c, ptr + 1)
            IN  hi * 256 + lo
      [] mode = "Indirect_Y" ->
            LET base == mem_read(c, c.program_counter)
                lo == mem_read(c, base)
                hi == mem_read(c, U8(base + 1))
                deref_base == hi * 256 + lo
            IN  U16(deref_base + c.register_y)

get_operand_address(c, mode) ==
    CASE mode = "Immediate" -> c.program_counter
      [] mode = "ZeroPage" -> mem_read(c, c.program_counter)
      [] mode = "Absolute" -> mem_read_u16(c, c.program_counter)
      [] mode = "ZeroPage_X" -> U8(mem_read(c, c.program_counter) + c.register_x)
      [] mode = "ZeroPage_Y" -> U8(mem_read(c, c.program_counter) + c.register_y)
      [] mode = "Absolute_X" -> U16(mem_read_u16(c, c.program_counter) + c.register_x)
      [] mode = "Absolute_Y" -> U16(mem_read_u16(c, c.program_counter) + c.register_y)
      [] mode = "Indirect_X" ->
            LET base == mem_read(c, c.program_counter)
                ptr == U8(base + c.register_x)
                lo == mem_read(c, ptr)
                hi == mem_read(c, U8(ptr + 1))
            IN  hi * 256 + lo
      [] mode = "Indirect_Y" ->
            LET base == mem_read(c, c.program_counter)
                lo == mem_read(c, base)
                hi == mem_read(c, U8(base + 1))
                deref_base == hi * 256 + lo
            IN  U16(deref_base + c.register_y)

\* get_operand_address panics: NoneAddressing, or `pos + 1` overflowing in mem_read_u16
get_operand_address_panics(c, mode) ==
    CASE mode = "NoneAddressing" -> TRUE
      [] mode \in {"Absolute", "Absolute_X", "Absolute_Y"} ->
            u16_overflows(c, c.program_counter + 1)
      [] OTHER -> FALSE

(***************************************************************************)
(* Status flags.                                                           *)
(***************************************************************************)
FlgCodes == [CARRY |-> 0, ZERO |-> 1, INTERRUPT_DISABLE |-> 2, DECIMAL_MODE |-> 3,
             BREAK |-> 4, RESERVED |-> 5, OVERFLOW |-> 6, NEGATIV |-> 7]

get_flg(c, flgCode) == Bit(c.status, FlgCodes[flgCode])

\* the flag write that assigns the whole status byte
set_flg_whole_byte(c, flgCode, value) ==
    IF value = 1
    THEN [c EXCEPT !.status = Pow2(FlgCodes[flgCode])]
    ELSE [c EXCEPT !.status = 255 - Pow2(FlgCodes[flgCode])]

set_flg(c, flgCode, value) ==
    IF value = 1
    THEN [c EXCEPT !.status = BitOr(c.status, Pow2(FlgCodes[flgCode]))]
    ELSE [c EXCEPT !.status = BitAnd(c.status, 255 - Pow2(FlgCodes[flgCode]))]

\* the flag update that sets the zero flag but never clears it
update_flags_sticky_zero(c, result) ==
    LET s1 == IF result = 0 THEN BitOr(c.status, 2) ELSE c.status
        s2 == IF BitAnd(result, 128) # 0 THEN BitOr(s1, 128) ELSE BitAnd(s1, 127)
    IN  [c EXCEPT !.status = s2]

update_zero_and_negative_flags(c, result) ==
    LET s1 == IF result = 0 THEN BitOr(c.status, 2) ELSE BitAnd(c.status, 253)
        s2 == IF BitAnd(result, 128) # 0 THEN BitOr(s1, 128) ELSE BitAnd(s1, 127)
    IN  [c EXCEPT !.status = s2]

(***************************************************************************)
(* Stack engine.                                                           *)
(***************************************************************************)
STACK == 256
STACK_RESET == 253

\* the push that lowers the pointer before it writes
stack_push_predecrement(c, value) ==
    LET r == [c EXCEPT !.stack_pointer = U8(c.stack_pointer + 255)]
    IN  mem_write(r, STACK + r.stack_pointer, value)

stack_push(c, value) ==
    LET w == mem_write(c, STACK + c.stack_pointer, value)
    IN  [w EXCEPT !.stack_pointer = U8(c.stack_pointer + 255)]

\* the pop that reads before it raises the pointer
stack_pop_read_first(c) ==
    [cpu |-> [c EXCEPT !.stack_pointer = U8(c.stack_pointer + 1)],
     value |-> mem_read(c, STACK + c.stack_pointer)]

\* stack_pop returns the byte and leaves the CPU with the pointer raised
stack_pop(c) ==
    LET r == [c EXCEPT !.stack_pointer = U8(c.stack_pointer + 1)]
    IN  [cpu |-> r, value |-> mem_read(r, STACK + r.stack_pointer)]

\* the 16-bit push writing the low byte first
stack_push_u16_low_first(c, value) ==
    LET hi == value \div 256
        lo == value % 256
    IN  stack_push(stack_push(c, lo), hi)

stack_push_u16(c, value) ==
    LET hi == value \div 256
        lo == value % 256
    IN  stack_push(stack_push(c, hi), lo)

stack_pop_u16(c) ==
    LET l == stack_pop(c)
        h == stack_pop(l.cpu)
    IN  [cpu |-> h.cpu, value |-> h.value * 256 + l.value]

(***************************************************************************)
(* ALU and flag-update logic.                                              *)
(***************************************************************************)
\* adc with the carry-in left out of the sum
adc_without_carry_in(c, mode) ==
    LET addr == get_operand_address(c, mode)
        value == mem_read(c, addr)
        sum == c.register_a + value
        c1 == set_flg(c, "CARRY", IF sum > 255 THEN 1 ELSE 0)
        result == sum % 256
        c2 == set_flg(c1, "OVERFLOW",
                      IF (BitAnd(value, 128) = BitAnd(c.register_a, 128))
                          /\ (BitAnd(result, 128) # BitAnd(value, 128))
                      THEN 1 ELSE 0)
        c3 == [c2 EXCEPT !.register_a = result]
    IN  update_zero_and_negative_flags(c3, c3.register_a)

\* the addition whose overflow flag is the unsigned carry out
adc_overflow_is_carry(c, mode) ==
    LET addr == get_operand_address(c, mode)
        value == mem_read(c, addr)
        sum == c.register_a + value + get_flg(c, "CARRY")
        c1 == set_flg(c, "CARRY", IF sum > 255 THEN 1 ELSE 0)
        result == sum % 256
        c2 == set_flg(c1, "OVERFLOW", IF sum > 255 THEN 1 ELSE 0)
        c3 == [c2 EXCEPT !.register_a = result]
    IN  update_zero_and_negative_flags(c3, c3.register_a)

adc(c, mode) ==
    LET addr == get_operand_address(c, mode)
        value == mem_read(c, addr)
        sum == c.register_a + value + get_flg(c, "CARRY")
        c1 == set_flg(c, "CARRY", IF sum > 255 THEN 1 ELSE 0)
        result == sum % 256
        c2 == set_flg(c1, "OVERFLOW",
                      IF (BitAnd(value, 128) = BitAnd(c.register_a, 128))
                          /\ (BitAnd(result, 128) # BitAnd(value, 128))
                      THEN 1 ELSE 0)
        c3 == [c2 EXCEPT !.register_a = result]
    IN  update_zero_and_negative_flags(c3, c3.register_a)

and(c, mode) ==
    LET addr == get_operand_address(c, mode)
        value == mem_read(c, addr)
        c1 == [c EXCEPT !.register_a = BitAnd(c.register_a, value)]
    IN  update_zero_and_negative_flags(c1, c1.register_a)

asl_accumulator(c) ==
    LET value == c.register_a
        c1 == set_flg(c, "CARRY", IF value \div 128 = 0 THEN 0 ELSE 1)
        c2 == [c1 EXCEPT !.register_a = Shl1(value)]
    IN  update_zero_and_negative_flags(c2, c2.register_a)

asl(c, mode) ==
    LET addr == get_operand_address(c, mode)
        value == mem_read(c, addr)
        c1 == set_flg(c, "CARRY", IF value \div 128 = 0 THEN 0 ELSE 1)
        c2 == mem_write(c1, addr, Shl1(value))
    IN  update_zero_and_negative_flags(c2, Shl1(value))

bit(c, mode) ==
    LET addr == get_operand_address(c, mode)
        value == mem_read(c, addr)
        result == BitAnd(c.register_a, value)
        c1 == set_flg(c, "ZERO", IF result = 0 THEN 1 ELSE 0)
        c2 == set_flg(c1, "OVERFLOW", Bit(result, 6))
    IN  set_flg(c2, "NEGATIV", Bit(result, 7))

\* cmp raising the carry only when the register is strictly greater
cmp_strict_carry(c, mode, compare_with) ==
    LET addr == get_operand_address(c, mode)
        value == mem_read(c, addr)
        c1 == set_flg(c, "CARRY", IF compare_with > value THEN 1 ELSE 0)
    IN  update_zero_and_negative_flags(c1, U8(compare_with + 256 - value))

cmp(c, mode, compare_with) ==
    LET addr == get_operand_address(c, mode)
        value == mem_read(c, addr)
        c1 == set_flg(c, "CARRY", IF compare_with >= value THEN 1 ELSE 0)
    IN  update_zero_and_negative_flags(c1, U8(compare_with + 256 - value))

dec(c, mode) ==
    LET addr == get_operand_address(c, mode)
        value == mem_read(c, addr)
        result == U8(value + 255)
        c1 == mem_write(c, addr, result)
    IN  update_zero_and_negative_flags(c1, result)

dex(c) ==
    LET result == U8(c.register_x + 255)
        c1 == [c EXCEPT !.register_x = result]
    IN  update_zero_and_negative_flags(c1, result)

dey(c) ==
    LET result == U8(c.register_y + 255)
        c1 == [c EXCEPT !.register_y = result]
    IN  update_zero_and_negative_flags(c1, result)

inc(c, mode) ==
    LET addr == get_operand_address(c, mode)
        value == mem_read(c, addr)
        result == U8(value + 1)
        c1 == mem_write(c, addr, result)
    IN  update_zero_and_negative_flags(c1, result)

inx(c) ==
    LET c1 == [c EXCEPT !.register_x = U8(c.register_x + 1)]
    IN  update_zero_and_negative_flags(c1, c1.register_x)

iny(c) ==
    LET c1 == [c EXCEPT !.register_y = U8(c.register_y + 1)]
    IN  update_zero_and_negative_flags(c1, c1.register_y)

eor(c, mode) ==
    LET addr == get_operand_address(c, mode)
        value == mem_read(c, addr)
        result == BitXor(c.register_a, value)
        c1 == [c EXCEPT !.register_a = result]
    IN  update_zero_and_negative_flags(c1, result)

lsr_accumulator(c) ==
    LET value == c.register_a
        c1 == set_flg(c, "CARRY", IF BitAnd(value, 1) = 0 THEN 0 ELSE 1)
        c2 == [c1 EXCEPT !.register_a = Shr1(value)]
    IN  update_zero_and_negative_flags(c2, c2.register_a)

lsr(c, mode) ==
    LET addr == get_operand_address(c, mode)
        value == mem_read(c, addr)
        c1 == set_flg(c, "CARRY", IF value \div 128 = 0 THEN 0 ELSE 1)
        c2 == mem_write(c1, addr, Shr1(value))
    IN  update_zero_and_negative_flags(c2, Shr1(value))

\* the rotate feeding in the carry it has just set instead of the one it found
rol_accumulator_new_carry(c) ==
    LET value == c.register_a
        c1 == set_flg(c, "CARRY", IF value \div 128 = 0 THEN 0 ELSE 1)
        c2 == [c1 EXCEPT !.register_a = BitOr(Shl1(value), get_flg(c1, "CARRY"))]
    IN  update_zero_and_negative_flags(c2, c2.register_a)

rol_accumulator(c) ==
    LET value == c.register_a
        old_carry == get_flg(c, "CARRY")
        c1 == set_flg(c, "CARRY", IF value \div 128 = 0 THEN 0 ELSE 1)
        c2 == [c1 EXCEPT !.register_a = BitOr(Shl1(value), old_carry)]
    IN  update_zero_and_negative_flags(c2, c2.register_a)

rol(c, mode) ==
    LET addr == get_operand_address(c, mode)
        value == mem_read(c, addr)
        old_carry == get_flg(c, "CARRY")
        c1 == set_flg(c, "CARRY", IF value \div 128 = 0 THEN 0 ELSE 1)
        c2 == mem_write(c1, addr, BitOr(Shl1(value), old_carry))
    IN  update_zero_and_negative_flags(c2, BitOr(Shl1(value), old_carry))

ror_accumulator(c) ==
    LET value == c.register_a
        old_carry == get_flg(c, "CARRY")
        c1 == set_flg(c, "CARRY", IF value \div 128 = 0 THEN 0 ELSE 1)
        c2 == [c1 EXCEPT !.register_a = BitOr(Shr1(value), (old_carry * 128) % 256)]
    IN  update_zero_and_negative_flags(c2, c2.register_a)

ror(c, mode) ==
    LET addr == get_operand_address(c, mode)
        value == mem_read(c, addr)
        old_carry == get_flg(c, "CARRY")
        c1 == set_flg(c, "CARRY", IF value \div 128 = 0 THEN 0 ELSE 1)
        c2 == mem_write(c1, addr, BitOr(Shr1(value), (old_carry * 128) % 256))
    IN  update_zero_and_negative_flags(c2, BitOr(Shr1(value), (old_carry * 128) % 256))

\* sbc negating the operand without the further `- 1`
sbc_without_decrement(c, mode) ==
    LET addr == get_operand_address(c, mode)
        value == I8AsU8(I8Wrap(0 - AsI8(mem_read(c, addr))))
        sum == c.register_a + value + get_flg(c, "CARRY")
        c1 == set_flg(c, "CARRY", IF sum > 255 THEN 1 ELSE 0)
        result == sum % 256
        c2 == set_flg(c1, "OVERFLOW",
                      IF (BitAnd(value, 128) = BitAnd(c.register_a, 128))
                          /\ (BitAnd(result, 128) # BitAnd(value, 128))
                      THEN 1 ELSE 0)
        c3 == [c2 EXCEPT !.register_a = result]
    IN  update_zero_and_negative_flags(c3, c3.register_a)

\* the subtraction that sets the carry when a borrow occurred
sbc_carry_is_borrow(c, mode) ==
    LET addr == get_operand_address(c, mode)
        value == I8AsU8(I8Wrap(I8Wrap(0 - AsI8(mem_read(c, addr))) - 1))
        sum == c.register_a + value + get_flg(c, "CARRY")
        c1 == set_flg(c, "CARRY", IF sum > 255 THEN 0 ELSE 1)
        result == sum % 256
        c2 == set_flg(c1, "OVERFLOW",
                      IF (BitAnd(value, 128) = BitAnd(c.register_a, 128))
                          /\ (BitAnd(result, 128) # BitAnd(value, 128))
                      THEN 1 ELSE 0)
        c3 == [c2 EXCEPT !.register_a = result]
    IN  update_zero_and_negative_flags(c3, c3.register_a)

sbc(c, mode) ==
    LET addr == get_operand_address(c, mode)
        value == I8AsU8(I8Wrap(I8Wrap(0 - AsI8(mem_read(c, addr))) - 1))
        sum == c.register_a + value + get_flg(c, "CARRY")
        c1 == set_flg(c, "CARRY", IF sum > 255 THEN 1 ELSE 0)
        result == sum % 256
        c2 == set_flg(c1, "OVERFLOW",
                      IF (BitAnd(value, 128) = BitAnd(c.register_a, 128))
                          /\ (BitAnd(result, 128) # BitAnd(value, 128))
                      THEN 1 ELSE 0)
        c3 == [c2 EXCEPT !.register_a = result]
    IN  update_zero_and_negative_flags(c3, c3.register_a)

ora(c, mode) ==
    LET addr == get_operand_address(c, mode)
        value == mem_read(c, addr)
        result == BitOr(c.register_a, value)
        c1 == [c EXCEPT !.register_a = result]
    IN  update_zero_and_negative_flags(c1, result)

(***************************************************************************)
(* Loads, stores and register transfers.                                   *)
(***************************************************************************)
ld(c, mode, kind) ==
    LET addr == get_operand_address(c, mode)
        value == mem_read(c, addr)
        c1 == CASE kind = "REGISTER_A" -> [c EXCEPT !.register_a = value]
                [] kind = "REGISTER_X" -> [c EXCEPT !.register_x = value]
                [] kind = "REGISTER_Y" -> [c EXCEPT !.register_y = value]
    IN  update_zero_and_negative_flags(c1, value)

tax(c) ==
    LET c1 == [c EXCEPT !.register_x = c.register_a]
    IN  update_zero_and_negative_flags(c1, c1.register_x)

txa(c) ==
    LET c1 == [c EXCEPT !.register_a = c.register_x]
    IN  update_zero_and_negative_flags(c1, c1.register_a)

tay(c) ==
    LET c1 == [c EXCEPT !.register_y = c.register_a]
    IN  update_zero_and_negative_flags(c1, c1.register_y)

tya(c) ==
    LET c1 == [c EXCEPT !.register_a = c.register_y]
    IN  update_zero_and_negative_flags(c1, c1.register_a)

tsx(c) ==
    LET c1 == [c EXCEPT !.register_x = c.stack_pointer]
    IN  update_zero_and_negative_flags(c1, c1.register_x)

\* the transfer to the stack pointer that updates the flags like the other transfers
txs_with_flags(c) ==
    LET c1 == [c EXCEPT !.stack_pointer = c.register_x]
    IN  update_zero_and_negative_flags(c1, c1.stack_pointer)

txs(c) == [c EXCEPT !.stack_pointer = c.register_x]

\* the store that updates the zero and negative flags as a load does
store_with_flags(c, mode, kind) ==
    LET addr == get_operand_address(c, mode)
        value == CASE kind = "REGISTER_A" -> c.register_a
                   [] kind = "REGISTER_X" -> c.register_x
                   [] kind = "REGISTER_Y" -> c.register_y
    IN  update_zero_and_negative_flags(mem_write(c, addr, value), value)

\* the store that writes the accumulator whatever register is asked for
store_register_a(c, mode, kind) ==
    LET addr == get_operand_address(c, mode)
    IN  mem_write(c, addr, c.register_a)

store(c, mode, kind) ==
    LET addr == get_operand_address(c, mode)
    IN  CASE kind = "REGISTER_A" -> mem_write(c, addr, c.register_a)
          [] kind = "REGISTER_X" -> mem_write(c, addr, c.register_x)
          [] kind = "REGISTER_Y" -> mem_write(c, addr, c.register_y)

\* the branch taken whatever the condition
branch_always(c, condition) ==
    LET jump == AsI8(mem_read(c, c.program_counter))
        jump_addr == U16(U16(c.program_counter + 1) + I8AsU16(jump))
    IN  [c EXCEPT !.program_counter = jump_addr]

branch(c, condition) ==
    IF condition
    THEN LET jump == AsI8(mem_read(c, c.program_counter))
             jump_addr == U16(U16(c.program_counter + 1) + I8AsU16(jump))
         IN  [c EXCEPT !.program_counter = jump_addr]
    ELSE c

(***************************************************************************)
(* Construction, program loading and reset.                                *)
(***************************************************************************)
new(b, checks) ==
    [register_a |-> 0, register_x |-> 0, register_y |-> 0, status |-> 36,
     program_counter |-> 0, stack_pointer |-> STACK_RESET, bus |-> b,
     overflow_checks |-> checks, panicked |-> FALSE]

\* a panic (overflow check, unwrap of None, todo!) ends the call
panic(c) == [c EXCEPT !.panicked = TRUE]

reset(c) ==
    [c EXCEPT !.register_a = 0, !.register_x = 0, !.status = 36,
              !.program_counter = mem_read_u16(c, 65532)]

\* the index i of the byte that the loop of load writes to address x: 0x8000 + i = x
load_index(x) == (x + 32768) % 65536

\* the first `count` iterations of the loop of load: program[i] goes to 0x8000 + i
load_from(c, program, count) ==
    LET written == IF count <= 32768 THEN 32768..(32767 + count)
                   ELSE (32768..65535) \cup (0..(count - 32769))
    IN  [c EXCEPT !.bus = [x \in (DOMAIN c.bus) \cup written |->
                              IF x \in written THEN program[load_index(x) + 1]
                              ELSE c.bus[x]]]

\* load leaving the reset vector as it finds it
load_without_vector(c, program) ==
    LET count == Len(program) % 65536
    IN  IF u16_overflows(c, 32768 + (count - 1)) THEN panic(load_from(c, program, 32768))
        ELSE load_from(c, program, count)

\* `0x8000 + i` overflows from i = 0x8000 on
load(c, program) ==
    LET count == Len(program) % 65536
    IN  IF u16_overflows(c, 32768 + (count - 1)) THEN panic(load_from(c, program, 32768))
        ELSE mem_write_u16(load_from(c, program, count), 65532, 32768)

(***************************************************************************)
(* The dispatch loop, run_with_callback.                                   *)
(***************************************************************************)
cpu ==
    [register_a |-> register_a, register_x |-> register_x, register_y |-> register_y,
     status |-> status, program_counter |-> program_counter,
     stack_pointer |-> stack_pointer, bus |-> bus,
     overflow_checks |-> overflow_checks, panicked |-> FALSE]

LdaOps == {169, 165, 181, 173, 189, 185, 161, 177}
LdxOps == {162, 166, 182, 174, 190}
LdyOps == {160, 164, 180, 171, 188}
StaOps == {133, 149, 141, 157, 153, 129, 145}
StxOps == {134, 150, 142}
StyOps == {132, 148, 140}
AdcOps == {105, 101, 117, 109, 125, 121, 97, 113}
AndOps == {41, 37, 53, 45, 61, 57, 33, 49}
AslOps == {6, 22, 14, 30}
BitOps == {36, 44}
CmpOps == {201, 197, 213, 205, 221, 217, 193, 209}
CpxOps == {224, 228, 236}
CpyOps == {192, 196, 204}
DecOps == {198, 214, 206, 222}
EorOps == {73, 69, 85, 77, 93, 89, 65, 81}
IncOps == {230, 246, 238, 254}
LsrOps == {70, 86, 78, 94}
OraOps == {9, 5, 21, 13, 29, 25, 1, 17}
RolOps == {38, 54, 46, 62}
RorOps == {102, 118, 110, 126}
SbcOps == {233, 229, 245, 237, 253, 249, 225, 241}

\* the arms whose handler begins with get_operand_address
AddressedOps ==
    LdaOps \cup LdxOps \cup LdyOps \cup StaOps \cup StxOps \cup StyOps \cup AdcOps
    \cup AndOps \cup AslOps \cup BitOps \cup CmpOps \cup CpxOps \cup CpyOps \cup DecOps
    \cup EorOps \cup IncOps \cup LsrOps \cup OraOps \cup RolOps \cup RorOps \cup SbcOps

\* every opcode byte some arm of the match lists
ArmOps ==
    AddressedOps \cup BranchOps
    \cup {170, 138, 168, 152, 186, 154, 10, 202, 136, 232, 200, 74, 42, 106, 72, 8, 104, 40,
          76, 108, 32, 96, 64, 24, 216, 88, 184, 56, 248, 120, 0, 234}

\* JMP: 0x4C
jmp(c) ==
    IF u16_overflows(c, c.program_counter + 1) THEN panic(c)
    ELSE [c EXCEPT !.program_counter = mem_read_u16(c, c.program_counter)]

\* JMP Indirect reading its high byte from the next address, across the page boundary
jmp_indirect_without_quirk(c) ==
    IF u16_overflows(c, c.program_counter + 1) THEN panic(c)
    ELSE LET mem_address == mem_read_u16(c, c.program_counter)
         IN  [c EXCEPT !.program_counter = mem_read_u16(c, mem_address)]

\* JMP Indirect: 0x6C
jmp_indirect(c) ==
    IF u16_overflows(c, c.program_counter + 1) THEN panic(c)
    ELSE LET mem_address == mem_read_u16(c, c.program_counter)
             indirect_ref ==
                 IF BitAnd(mem_address, 255) = 255
                 THEN LET lo == mem_read(c, mem_address)
                          hi == mem_read(c, (mem_address \div 256) * 256)
                      IN  hi * 256 + lo
                 ELSE mem_read_u16(c, mem_address)
         IN  [c EXCEPT !.program_counter = indirect_ref]

\* JSR: 0x20
jsr(c) ==
    IF u16_overflows(c, c.program_counter + 2) THEN panic(c)
    ELSE LET c1 == stack_push_u16(c, U16(U16(c.program_counter + 2) + 65535))
             target_address == mem_read_u16(c1, c1.program_counter)
         IN  [c1 EXCEPT !.program_counter = target_address]

\* RTS resuming at the popped address itself
rts_without_increment(c) ==
    LET p == stack_pop_u16(c)
    IN  [p.cpu EXCEPT !.program_counter = p.value]

\* RTS: 0x60
rts(c) ==
    LET p == stack_pop_u16(c)
    IN  IF u16_overflows(c, p.value + 1) THEN panic(p.cpu)
        ELSE [p.cpu EXCEPT !.program_counter = U16(p.value + 1)]

\* RTI resuming one past the popped address, as RTS does
rti_with_increment(c) ==
    LET s == stack_pop(c)
        c1 == [s.cpu EXCEPT !.status = s.value]
        p == stack_pop_u16(c1)
    IN  [p.cpu EXCEPT !.program_counter = U16(p.value + 1)]

\* RTI: 0x40
rti(c) ==
    LET s == stack_pop(c)
        c1 == [s.cpu EXCEPT !.status = s.value]
        p == stack_pop_u16(c1)
    IN  [p.cpu EXCEPT !.program_counter = p.value]

\* PLA: 0x68
pla(c) ==
    LET s == stack_pop(c)
        c1 == [s.cpu EXCEPT !.register_a = s.value]
    IN  update_zero_and_negative_flags(c1, s.value)

\* PLP: 0x28
plp(c) ==
    LET s == stack_pop(c)
        c1 == [s.cpu EXCEPT !.status = s.value]
    IN  update_zero_and_negative_flags(c1, c1.status)

\* the match on `code`; `opcode` is the descriptor found for it
match_code(c, op, opcode) ==
    IF op \in AddressedOps /\ get_operand_address_panics(c, opcode.mode) THEN panic(c)
    ELSE
    CASE op \in LdaOps -> ld(c, opcode.mode, "REGISTER_A")
      [] op \in LdxOps -> ld(c, opcode.mode, "REGISTER_X")
      [] op \in LdyOps -> ld(c, opcode.mode, "REGISTER_Y")
      [] op \in StaOps -> store(c, opcode.mode, "REGISTER_A")
      [] op \in StxOps -> store(c, opcode.mode, "REGISTER_X")
      [] op \in StyOps -> store(c, opcode.mode, "REGISTER_Y")
      [] op = 170 -> tax(c)
      [] op = 138 -> txa(c)
      [] op = 168 -> tay(c)
      [] op = 152 -> tya(c)
      [] op = 186 -> tsx(c)
      [] op = 154 -> txs(c)
      [] op \in AdcOps -> adc(c, opcode.mode)
      [] op \in AndOps -> and(c, opcode.mode)
      [] op = 10 -> asl_accumulator(c)
      [] op \in AslOps -> asl(c, opcode.mode)
      [] op \in BitOps -> bit(c, opcode.mode)
      [] op \in CmpOps -> cmp(c, opcode.mode, c.register_a)
      [] op \in CpxOps -> cmp(c, opcode.mode, c.register_x)
      [] op \in CpyOps -> cmp(c, opcode.mode, c.register_y)
      [] op \in DecOps -> dec(c, opcode.mode)
      [] op = 202 -> dex(c)
      [] op = 136 -> dey(c)
      [] op \in EorOps -> eor(c, opcode.mode)
      [] op \in IncOps -> inc(c, opcode.mode)
      [] op = 232 -> inx(c)
      [] op = 200 -> iny(c)
      [] op = 74 -> lsr_accumulator(c)
      [] op \in LsrOps -> lsr(c, opcode.mode)
      [] op \in OraOps -> ora(c, opcode.mode)
      [] op = 42 -> rol_accumulator(c)
      [] op \in RolOps -> rol(c, opcode.mode)
      [] op = 106 -> ror_accumulator(c)
      [] op \in RorOps -> ror(c, opcode.mode)
      [] op \in SbcOps -> sbc(c, opcode.mode)
      [] op = 72 -> stack_push(c, c.register_a)
      [] op = 8 -> stack_push(c, c.status)
      [] op = 104 -> pla(c)
      [] op = 40 -> plp(c)
      [] op = 76 -> jmp(c)
      [] op = 108 -> jmp_indirect(c)
      [] op = 32 -> jsr(c)
      [] op = 96 -> rts(c)
      [] op = 64 -> rti(c)
      [] op = 144 -> branch(c, get_flg(c, "CARRY") = 0)
      [] op = 176 -> branch(c, get_flg(c, "CARRY") = 1)
      [] op = 240 -> branch(c, get_flg(c, "ZERO") = 1)
      [] op = 48 -> branch(c, get_flg(c, "NEGATIV") = 1)
      [] op = 208 -> branch(c, get_flg(c, "ZERO") = 0)
      [] op = 16 -> branch(c, get_flg(c, "NEGATIV") = 0)
      [] op = 80 -> branch(c, get_flg(c, "OVERFLOW") = 0)
      [] op = 112 -> branch(c, get_flg(c, "OVERFLOW") = 1)
      [] op = 24 -> set_flg(c, "CARRY", 0)
      [] op = 216 -> set_flg(c, "DECIMAL_MODE", 0)
      [] op = 88 -> set_flg(c, "INTERRUPT_DISABLE", 0)
      [] op = 184 -> set_flg(c, "OVERFLOW", 0)
      [] op = 56 -> set_flg(c, "CARRY", 1)
      [] op = 248 -> set_flg(c, "DECIMAL_MODE", 1)
      [] op = 120 -> set_flg(c, "INTERRUPT_DISABLE", 1)
      [] op = 0 -> c
      [] op = 234 -> c
      [] OTHER -> panic(c)

\* the iteration going on past a byte that has no descriptor
iteration_past_unknown(c) ==
    LET op == mem_read(c, c.program_counter)
        c1 == [c EXCEPT !.program_counter = U16(c.program_counter + 1)]
    IN  IF u16_overflows(c, c.program_counter + 1) THEN panic(c)
        ELSE IF op \notin DOMAIN OPCODES_MAP THEN c1
        ELSE match_code(c1, op, OPCODES_MAP[op])

\* one iteration up to the end of the match: fetch, decode, execute
iteration(c) ==
    LET op == mem_read(c, c.program_counter)
        c1 == [c EXCEPT !.program_counter = U16(c.program_counter + 1)]
    IN  IF u16_overflows(c, c.program_counter + 1) THEN panic(c)
        ELSE IF op \notin DOMAIN OPCODES_MAP THEN panic(c1)
        ELSE match_code(c1, op, OPCODES_MAP[op])

\* the advance adding the whole length instead of the operand bytes
advance_by_len(c, pcs, opcode) ==
    IF pcs = c.program_counter
    THEN IF u16_overflows(c, c.program_counter + opcode.len) THEN panic(c)
         ELSE [c EXCEPT !.program_counter = U16(c.program_counter + opcode.len)]
    ELSE c

\* the `if` after the match
advance(c, pcs, opcode) ==
    IF pcs = c.program_counter
    THEN IF u16_overflows(c, c.program_counter + (opcode.len - 1)) THEN panic(c)
         ELSE [c EXCEPT !.program_counter = U16(c.program_counter + (opcode.len - 1))]
    ELSE c

\* NOP's arm returning as BRK's does
after_match_nop_returns(c, op) ==
    IF c.panicked THEN "panicked" ELSE IF op \in {0, 234} THEN "returned" ELSE "advance"

\* the arms that fall out of the match into the advance, BRK's included
after_match_without_return(c, op) == IF c.panicked THEN "panicked" ELSE "advance"

\* where the loop stands after the match: BRK's arm is `return`
after_match(c, op) ==
    IF c.panicked THEN "panicked" ELSE IF op = 0 THEN "returned" ELSE "advance"

Install(c) ==
    /\ register_a' = c.register_a
    /\ register_x' = c.register_x
    /\ register_y' = c.register_y
    /\ status' = c.status
    /\ program_counter' = c.program_counter
    /\ stack_pointer' = c.stack_pointer
    /\ bus' = c.bus

Execute ==
    /\ phase = "fetch"
    /\ Len(trace) < MaxSteps
    /\ LET op == mem_read(cpu, program_counter)
           r == iteration(cpu)
       IN  /\ Install(r)
           /\ code' = op
           /\ program_counter_state' = U16(program_counter + 1)
           /\ before' = cpu
           /\ trace' = Append(trace, [code |-> op, pc |-> program_counter,
                                      sp |-> stack_pointer])
           /\ phase' = after_match(r, op)
    /\ UNCHANGED <<overflow_checks, callbacks, data, popped>>

Advance ==
    /\ phase = "advance"
    /\ LET r == advance(cpu, program_counter_state, OPCODES_MAP[code])
       IN  /\ Install(r)
           /\ phase' = IF r.panicked THEN "panicked" ELSE "callback"
    /\ UNCHANGED <<overflow_checks, code, program_counter_state, before, trace, callbacks,
                   data, popped>>

\* run() passes the empty closure
Callback ==
    /\ phase = "callback"
    /\ phase' = "fetch"
    /\ callbacks' = callbacks + 1
    /\ UNCHANGED <<register_a, register_x, register_y, status, program_counter,
                   stack_pointer, bus, overflow_checks, code, program_counter_state,
                   before, trace, data, popped>>

Next == Execute \/ Advance \/ Callback

\* load(program), called on a CPU that has not run yet
Load ==
    /\ phase = "load"
    /\ LET r == load(cpu, data)
       IN  /\ Install(r)
           /\ phase' = IF r.panicked THEN "panicked" ELSE "loaded"
    /\ before' = cpu
    /\ UNCHANGED <<overflow_checks, code, program_counter_state, trace, callbacks, data,
                   popped>>

\* reset(), called after load (run follows, as in load_and_run) or after run returned
Reset ==
    /\ phase \in {"loaded", "returned"}
    /\ Install(reset(cpu))
    /\ phase' = IF phase = "loaded" THEN "fetch" ELSE "reset"
    /\ before' = cpu
    /\ UNCHANGED <<overflow_checks, code, program_counter_state, trace, callbacks, data,
                   popped>>

NextBoot == Load \/ Reset \/ Execute \/ Advance \/ Callback

(***************************************************************************)
(* Initial states: the harness of the unit tests.  It loads a program,      *)
(* resets, writes memory cells and sets the public register fields.        *)
(***************************************************************************)
RECURSIVE write_cells(_, _)
write_cells(c, cells) ==
    IF cells = <<>> THEN c
    ELSE write_cells(mem_write(c, cells[1][1], cells[1][2]), Tail(cells))

Harness(cells, program, a, x, y, p, sp, checks) ==
    LET c0 == new(<<>>, checks)
        c1 == reset(load(c0, program))
        c2 == write_cells(c1, cells)
    IN  [c2 EXCEPT !.register_a = a, !.register_x = x, !.register_y = y,
                   !.status = p, !.stack_pointer = sp]

StartAt(c, position, argument) ==
    /\ register_a = c.register_a
    /\ register_x = c.register_x
    /\ register_y = c.register_y
    /\ status = c.status
    /\ program_counter = c.program_counter
    /\ stack_pointer = c.stack_pointer
    /\ bus = c.bus
    /\ overflow_checks = c.overflow_checks
    /\ phase = position
    /\ code = 0
    /\ program_counter_state = 0
    /\ before = c
    /\ trace = <<>>
    /\ callbacks = 0
    /\ data = argument
    /\ popped = 0

\* run() is about to be called
Start(c) == StartAt(c, "fetch", 0)

ModeOf(op) == OPCODES_MAP[op].mode

\* the CPU as the match arm sees it: program counter past the opcode byte
Fetched(c) == [c EXCEPT !.program_counter = U16(c.program_counter + 1)]

\* A one-instruction test: the program <<op, b1, b2>> is loaded and reset, the
\* registers are set, and for an addressed instruction the byte v is written where its
\* addressing mode points.
Scenario(cells, op, b1, b2, v, a, x, y, p, sp, checks) ==
    LET c == Harness(cells, <<op, b1, b2>>, a, x, y, p, sp, checks)
    IN  IF op \in AddressedOps /\ op \in DOMAIN OPCODES_MAP
        THEN mem_write(c, get_operand_address(Fetched(c), ModeOf(op)), v)
        ELSE c

\* operand bytes that exercise zero, sign and carry boundaries
Samples == {0, 1, 2, 15, 16, 48, 79, 80, 127, 128, 129, 176, 208, 240, 254, 255}
FewSamples == {0, 1, 80, 127, 128, 255}
\* a zero-page pointer at 0x10 / 0x13 for the indirect modes
Pointers == << <<16, 52>>, <<17, 2>>, <<19, 120>>, <<20, 3>> >>

\* the cells that hold the bytes `bytes` from address `addr` on
At(addr, bytes) == [i \in 1..Len(bytes) |-> <<U16(addr + i - 1), bytes[i]>>]
\* JMP absolute to `origin`
JmpTo(origin) == <<76, origin % 256, origin \div 256>>
\* the little-endian word stored at `addr` in the memory of c
WordAt(c, addr) == mem_read(c, addr) + 256 * mem_read(c, U16(addr + 1))

\* the operand an addressed instruction read, and the accumulator it started from
OperandAddress == get_operand_address(Fetched(before), ModeOf(code))
Operand == mem_read(before, OperandAddress)
CarryIn == get_flg(before, "CARRY")
\* the match arm has run (the advance has not)
Executed(ops) == phase = "advance" /\ code \in ops
\* the whole dispatch step has run
Stepped(ops) == phase = "callback" /\ code \in ops

(***************************************************************************)
(* ADC and SBC.                                                            *)
(***************************************************************************)
InitArith ==
    \/ \E op \in {105, 233}, a \in Byte, m \in Samples, cin \in {0, 1}, checks \in BOOLEAN :
          Start(Scenario(<<>>, op, 0, 0, m, a, 0, 0, cin, STACK_RESET, checks))
    \/ \E op \in AdcOps \cup SbcOps, a \in FewSamples, m \in FewSamples, cin \in {0, 1},
          checks \in BOOLEAN :
          Start(Scenario(Pointers, op, 16, 0, m, a, 3, 3, 36 + cin, STACK_RESET, checks))

SpecArith == InitArith /\ [][Next]_vars

\* C1: after ADC the accumulator is (a + m + c) mod 256, carry is 1 iff a + m + c > 255,
\* and overflow is 1 iff a and m have the same bit 7 and the result's bit 7 differs
\* from m's.
C1_AdcResult ==
    Executed(AdcOps) =>
        LET a == before.register_a
            m == Operand
            sum == a + m + CarryIn
        IN  /\ register_a = sum % 256
            /\ get_flg(cpu, "CARRY") = (IF sum > 255 THEN 1 ELSE 0)
            /\ get_flg(cpu, "OVERFLOW") =
                   (IF Bit(a, 7) = Bit(m, 7) /\ Bit(sum % 256, 7) # Bit(m, 7) THEN 1 ELSE 0)

\* 0x50 + 0x50 with carry clear: A = 0xA0, C = 0, V = 1, N = 1
C1_Witness ==
    /\ Executed({105})
    /\ before.register_a = 80 /\ Operand = 80 /\ CarryIn = 0
    /\ register_a = 160
    /\ get_flg(cpu, "CARRY") = 0
    /\ get_flg(cpu, "OVERFLOW") = 1
    /\ get_flg(cpu, "NEGATIV") = 1

\* C2: SBC(a, m, c) leaves the accumulator and the carry, overflow, zero and negative
\* flags that ADC(a, (-m - 1) mod 256, c) leaves.
C2_SbcIsAdcOfComplement ==
    Executed(SbcOps) =>
        LET m == Operand
            r == adc(mem_write(Fetched(before), OperandAddress, (0 - m - 1) % 256),
                     ModeOf(code))
        IN  /\ register_a = r.register_a
            /\ \A f \in {"CARRY", "OVERFLOW", "ZERO", "NEGATIV"} :
                   get_flg(cpu, f) = get_flg(r, f)

\* 0x50 - 0xB0 with carry clear: A = 0x9F, V = 1, N = 1 (test_sbc_occurs_overflow_plus)
C2_Witness ==
    /\ Executed({233})
    /\ before.register_a = 80 /\ Operand = 176 /\ CarryIn = 0
    /\ register_a = 159
    /\ get_flg(cpu, "OVERFLOW") = 1
    /\ get_flg(cpu, "NEGATIV") = 1

(***************************************************************************)
(* BIT and the compares.                                                   *)
(***************************************************************************)
CompareOps == CmpOps \cup CpxOps \cup CpyOps

\* the register a compare instruction reads
Compared(c) ==
    CASE code \in CmpOps -> c.register_a
      [] code \in CpxOps -> c.register_x
      [] code \in CpyOps -> c.register_y

\* the registers with r in the one that op reads (register_a for BIT)
RegistersFor(op, r) ==
    CASE op \in CpxOps -> <<85, r, 170>>
      [] op \in CpyOps -> <<85, 170, r>>
      [] OTHER -> <<r, 3, 3>>

InitTest ==
    \* every register value against the sample operands
    \/ \E op \in {36, 201, 224, 192}, r \in Byte, m \in Samples, p \in {36, 229} :
          LET g == RegistersFor(op, r)
          IN  Start(Scenario(<<>>, op, 16, 0, m, g[1], g[2], g[3], p, STACK_RESET, FALSE))
    \* every addressing mode
    \/ \E op \in BitOps \cup CompareOps, r \in FewSamples, m \in FewSamples,
          checks \in BOOLEAN :
          LET g == RegistersFor(op, r)
          IN  Start(Scenario(Pointers, op, 16, 0, m, g[1], g[2], g[3], 103, STACK_RESET,
                             checks))

SpecTest == InitTest /\ [][Next]_vars

\* the registers and the memory are as the instruction found them
RegistersKept ==
    /\ register_a = before.register_a
    /\ register_x = before.register_x
    /\ register_y = before.register_y
    /\ stack_pointer = before.stack_pointer
MemoryKept == bus = before.bus

\* C11: after BIT with accumulator a and operand m the zero flag is 1 iff (a AND m) = 0,
\* the overflow flag is bit 6 of m and the negative flag is bit 7 of m; the accumulator
\* and the memory are unchanged.
C11_BitFlags ==
    Executed(BitOps) =>
        LET a == before.register_a
            m == Operand
        IN  /\ get_flg(cpu, "ZERO") = (IF BitAnd(a, m) = 0 THEN 1 ELSE 0)
            /\ get_flg(cpu, "OVERFLOW") = Bit(m, 6)
            /\ get_flg(cpu, "NEGATIV") = Bit(m, 7)
            /\ register_a = a
            /\ MemoryKept

\* C12: after CMP, CPX or CPY of register value r with operand m, carry is 1 iff r >= m,
\* zero is 1 iff r = m and negative is bit 7 of (r - m) mod 256; the registers, the
\* overflow flag and the memory are unchanged.
C12_CompareFlags ==
    Executed(CompareOps) =>
        LET r == Compared(before)
            m == Operand
        IN  /\ get_flg(cpu, "CARRY") = (IF r >= m THEN 1 ELSE 0)
            /\ get_flg(cpu, "ZERO") = (IF r = m THEN 1 ELSE 0)
            /\ get_flg(cpu, "NEGATIV") = Bit((r - m) % 256, 7)
            /\ get_flg(cpu, "OVERFLOW") = get_flg(before, "OVERFLOW")
            /\ RegistersKept
            /\ MemoryKept

\* CPX of 0x80 with 0x80: equal, so carry and zero are set and negative is cleared,
\* with the overflow flag left set
C12_Witness ==
    /\ Executed(CpxOps)
    /\ before.register_x = 128 /\ Operand = 128
    /\ get_flg(before, "OVERFLOW") = 1
    /\ get_flg(cpu, "CARRY") = 1 /\ get_flg(cpu, "ZERO") = 1 /\ get_flg(cpu, "NEGATIV") = 0
    /\ get_flg(cpu, "OVERFLOW") = 1
    /\ register_x = 128

(***************************************************************************)
(* Right shifts and rotates.                                               *)
(***************************************************************************)
ShiftRightOps == {74, 70, 86, 78, 94, 106, 102, 118, 110, 126}
ShiftLeftOps == {10, 6, 22, 14, 30, 42, 38, 54, 46, 62}

\* the byte a shift or rotate works on: register_a for the accumulator forms
ShiftOperand == IF ModeOf(code) = "NoneAddressing" THEN before.register_a ELSE Operand

\* the operand is in register_a for the accumulator forms, in a memory cell otherwise
ShiftScenario(op, v, p, checks) ==
    Scenario(<<>>, op, (IF ModeOf(op) = "NoneAddressing" THEN 0 ELSE 16), 0, v,
             (IF ModeOf(op) = "NoneAddressing" THEN v ELSE 85), 3, 0, p, STACK_RESET, checks)

InitShift ==
    \/ \E op \in ShiftRightOps, v \in Byte, cin \in {0, 1}, p \in {36, 230},
          checks \in BOOLEAN :
          Start(ShiftScenario(op, v, p + cin, checks))
    \/ \E op \in ShiftLeftOps, v \in Byte, cin \in {0, 1} :
          Start(ShiftScenario(op, v, 36 + cin, FALSE))

SpecShift == InitShift /\ [][Next]_vars

\* C10: LSR and ROR, accumulator and memory forms, set the carry flag to bit 0 of the
\* operand value, the bit shifted out.
C10_RightShiftCarry ==
    Executed(ShiftRightOps) => get_flg(cpu, "CARRY") = Bit(ShiftOperand, 0)

\* the byte the shift or rotate wrote
ShiftResult ==
    IF ModeOf(code) = "NoneAddressing" THEN register_a ELSE mem_read(cpu, OperandAddress)

\* C25: for operand v and carry-in c, ASL and ROL set the carry to bit 7 of v; ASL
\* writes (2v) mod 256, ROL writes ((2v) mod 256) + c and ROR writes floor(v / 2) + 128c.
C25_ShiftDataPath ==
    LET v == ShiftOperand
        c == CarryIn
    IN  /\ Executed({10} \cup AslOps) =>
                get_flg(cpu, "CARRY") = Bit(v, 7) /\ ShiftResult = (2 * v) % 256
        /\ Executed({42} \cup RolOps) =>
                get_flg(cpu, "CARRY") = Bit(v, 7) /\ ShiftResult = ((2 * v) % 256) + c
        /\ Executed({106} \cup RorOps) => ShiftResult = (v \div 2) + 128 * c

\* ROL of 0x80 in memory with the carry set: 0x01 is written and the carry stays set
C25_Witness ==
    /\ Executed({38})
    /\ Operand = 128 /\ CarryIn = 1
    /\ mem_read(cpu, OperandAddress) = 1
    /\ get_flg(cpu, "CARRY") = 1

(***************************************************************************)
(* Every opcode byte, one instruction at a time.                           *)
(***************************************************************************)
\* register_a, register_x, register_y as the harness sets them
Registers == {<<0, 0, 0>>, <<1, 3, 255>>, <<128, 255, 1>>, <<255, 127, 128>>}
\* the byte on top of the stack, for the pulls
StackTop(v) == << <<254 + STACK, v>>, <<255 + STACK, 128>> >>

InitGeneral ==
    \/ \E op \in Byte, v \in FewSamples, r \in Registers, p \in {36, 229, 103}, checks \in BOOLEAN :
          Start(Scenario(Pointers \o StackTop(v), op, 16, 0, v, r[1], r[2], r[3], p,
                         STACK_RESET, checks))
    \* the instruction sits at the top of the address space, reached by a JMP
    \/ \E origin \in {65534, 65535}, op \in {234, 232, 169, 173, 133, 144},
          checks \in BOOLEAN :
          Start(Harness(<< <<origin, op>>, <<1, 0>> >>,
                        <<76, origin % 256, origin \div 256>>, 1, 2, 3, 36,
                        STACK_RESET, checks))
    \* RTS that pops 0xFFFF
    \/ \E checks \in BOOLEAN :
          Start(Harness(At(STACK + 254, <<255, 255>>), <<96, 0, 0>>, 1, 2, 3, 36,
                        STACK_RESET, checks))

Spec == InitGeneral /\ [][Next]_vars

\* the handlers that write a byte result, by the place they write it to
WritesA == LdaOps \cup AdcOps \cup SbcOps \cup AndOps \cup OraOps \cup EorOps
           \cup {10, 74, 42, 106, 138, 152, 104}
WritesX == LdxOps \cup {170, 186, 232, 202}
WritesY == LdyOps \cup {168, 200, 136}
WritesMemory == AslOps \cup LsrOps \cup RolOps \cup RorOps \cup IncOps \cup DecOps

\* the byte the instruction just wrote, read back from where it was written
ResultByte ==
    CASE code \in WritesA -> register_a
      [] code \in WritesX -> register_x
      [] code \in WritesY -> register_y
      [] code \in WritesMemory -> mem_read(cpu, OperandAddress)

\* C3: after an instruction that writes a byte result, the zero flag is 1 iff that byte
\* is 0 and the negative flag is bit 7 of that byte.
C3_ZeroNegativeFollowResult ==
    Stepped(WritesA \cup WritesX \cup WritesY \cup WritesMemory) =>
        /\ get_flg(cpu, "ZERO") = (IF ResultByte = 0 THEN 1 ELSE 0)
        /\ get_flg(cpu, "NEGATIV") = Bit(ResultByte, 7)

\* DEC of a memory cell holding 1 writes 0 there: zero set, negative cleared, although
\* both flags came in the other way round
C3_Witness ==
    /\ Stepped(DecOps)
    /\ Operand = 1
    /\ mem_read(cpu, OperandAddress) = 0
    /\ get_flg(before, "ZERO") = 0 /\ get_flg(before, "NEGATIV") = 1
    /\ get_flg(cpu, "ZERO") = 1 /\ get_flg(cpu, "NEGATIV") = 0

\* the opcode of the instruction dispatched last
LastCode == trace[Len(trace)].code
\* the bytes that have both a descriptor and a match arm
Decodable == (DOMAIN OPCODES_MAP) \cap ArmOps

\* C16: when the byte fetched is 0x00 the loop stops in that step without an error;
\* accumulator, X, Y, status, stack pointer and memory are as before the fetch, the
\* program counter is one further, and the callback was not invoked for the halt.
C16_Halt ==
    (trace # <<>> /\ LastCode = 0) =>
        /\ phase = "returned"
        /\ RegistersKept
        /\ status = before.status
        /\ MemoryKept
        /\ program_counter = U16(before.program_counter + 1)
        /\ callbacks = Len(trace) - 1

\* C17: when the byte fetched has no descriptor or no match arm the run ends in a
\* panic: no instruction is fetched after it, the callback is not invoked for it, and
\* the step changed no register other than the program counter and no memory cell.
C17_FatalDecode ==
    /\ \A i \in 1..(Len(trace) - 1) : trace[i].code \in Decodable
    /\ (trace # <<>> /\ LastCode \notin Decodable) =>
            /\ phase = "panicked"
            /\ RegistersKept
            /\ status = before.status
            /\ MemoryKept
            /\ callbacks = Len(trace) - 1

\* 0x02 has no descriptor: the unwrap panics after the fetch moved the program counter
C17_Witness ==
    /\ phase = "panicked"
    /\ code = 2
    /\ ~overflow_checks
    /\ program_counter = before.program_counter + 1
    /\ register_a = before.register_a /\ status = before.status

\* C20: no numeric operation of the core panics on overflow: a run panics only on a
\* byte it cannot decode, and the program counter stays in 0..65535.
C20_NoOverflowError ==
    /\ program_counter \in 0..65535
    /\ phase = "panicked" => LastCode \notin Decodable

\* the documented opcodes of the load family, by register
DocumentedLda == {169, 165, 181, 173, 189, 185, 161, 177}
DocumentedLdx == {162, 166, 182, 174, 190}
DocumentedLdy == {160, 164, 180, 172, 188}

\* C33: every documented opcode of the load family reaches the load handler for its
\* register: the dispatch does not end in the fatal default arm, and the register holds
\* the operand; in particular LDY absolute (0xAC) loads index Y from the absolute
\* address.  (Stated for instructions whose bytes lie below the top of the address
\* space, where no address sum overflows.)
C33_LoadCoverage ==
    (/\ trace # <<>>
     /\ LastCode \in DocumentedLda \cup DocumentedLdx \cup DocumentedLdy
     /\ trace[Len(trace)].pc < 65534
     /\ phase \in {"advance", "panicked"}) =>
        /\ phase = "advance"
        /\ LastCode \in DocumentedLda => register_a = Operand
        /\ LastCode \in DocumentedLdx => register_x = Operand
        /\ LastCode \in DocumentedLdy => register_y = Operand

\* the condition under which each branch opcode is taken
BranchCondition(op, c) ==
    CASE op = 144 -> get_flg(c, "CARRY") = 0
      [] op = 176 -> get_flg(c, "CARRY") = 1
      [] op = 240 -> get_flg(c, "ZERO") = 1
      [] op = 208 -> get_flg(c, "ZERO") = 0
      [] op = 48 -> get_flg(c, "NEGATIV") = 1
      [] op = 16 -> get_flg(c, "NEGATIV") = 0
      [] op = 80 -> get_flg(c, "OVERFLOW") = 0
      [] op = 112 -> get_flg(c, "OVERFLOW") = 1

\* jumps, call, returns
RedirectOps == {76, 108, 32, 96, 64}

\* C6: an instruction that is not a jump, call, return, taken branch or halt, with its
\* opcode at A and descriptor length L, ends its dispatch step at A + L (in the 16-bit
\* address space); a branch whose condition is false ends at A + 2.
C6_AdvanceByLength ==
    (/\ phase = "callback"
     /\ code \notin RedirectOps
     /\ ~(code \in BranchOps /\ BranchCondition(code, before))) =>
        /\ program_counter = U16(before.program_counter + OPCODES_MAP[code].len)
        /\ code \in BranchOps => program_counter = U16(before.program_counter + 2)

\* LDA absolute at 0x8000 ends at 0x8003
C6_Witness ==
    /\ Stepped({173})
    /\ before.program_counter = 32768
    /\ program_counter = 32771

(***************************************************************************)
(* Conditional branches.                                                   *)
(***************************************************************************)
InitBranch ==
    \/ \E op \in BranchOps, d \in Byte, p \in {36, 231}, checks \in BOOLEAN :
          Start(Harness(<<>>, <<op, d, 0>>, 0, 0, 0, p, STACK_RESET, checks))
    \* a branch near either end of the address space, reached by a JMP
    \/ \E origin \in {1, 65534, 65535}, op \in BranchOps,
          d \in Samples \cup {252, 253}, p \in {36, 231}, checks \in BOOLEAN :
          Start(Harness(At(origin, <<op, d>>), JmpTo(origin), 0, 0, 0, p,
                        STACK_RESET, checks))
    \* each of carry, zero, overflow and negative alone set, and alone clear
    \/ \E op \in BranchOps, d \in {0, 5, 128, 250, 255}, f \in {1, 2, 64, 128},
          inverted \in BOOLEAN :
          Start(Harness(<<>>, <<op, d, 0>>, 17, 34, 51, (IF inverted THEN 255 - f ELSE 36 + f),
                        200, FALSE))

SpecBranch == InitBranch /\ [][Next]_vars

\* the displacement byte of the branch just dispatched
Displacement == mem_read(before, U16(before.program_counter + 1))

\* C4: a taken branch at address A with displacement byte d ends its dispatch step at
\* (A + 2 + signed(d)) mod 65536, for every d in 0x00..0xFF.
C4_TakenBranchTarget ==
    (Stepped(BranchOps) /\ BranchCondition(code, before)) =>
        program_counter = (before.program_counter + 2 + AsI8(Displacement)) % 65536

Bodies == {<<96>>, <<234, 96>>, <<72, 96>>}

InitJump ==
    \* JMP absolute at 0x8000, also to the address right after its opcode and to itself
    \/ \E T \in {32769, 32771, 0, 4660, 65535, 32768}, checks \in BOOLEAN :
          Start(Harness(<<>>, JmpTo(T), 0, 0, 0, 36, STACK_RESET, checks))
    \* JMP absolute at the top of the address space
    \/ \E origin \in {65533, 65534, 65535}, next \in BOOLEAN, checks \in BOOLEAN :
          Start(Harness(At(origin, JmpTo(IF next THEN U16(origin + 1) ELSE 513)),
                        JmpTo(origin), 0, 0, 0, 36, STACK_RESET, checks))
    \* JMP indirect through a pointer at and off a page end
    \/ \E P \in {767, 768, 255, 4863}, lo \in {1, 52}, h1 \in {128, 18}, h2 \in {128, 86},
          checks \in BOOLEAN :
          Start(Harness(<< <<(P \div 256) * 256, h2>>, <<P + 1, h1>>, <<P, lo>> >>,
                        <<108, P % 256, P \div 256>>, 0, 0, 0, 36, STACK_RESET, checks))
    \* JSR at 0x8000 to a subroutine, for stack pointers that wrap during the push
    \/ \E T \in {32771, 512, 508}, body \in Bodies, sp \in {253, 0, 1, 255},
          checks \in BOOLEAN :
          Start(Harness(At(T, body), <<32, T % 256, T \div 256>>, 119, 0, 0, 36, sp, checks))
    \* JSR to the address right after its opcode
    \/ \E sp \in {253, 0}, checks \in BOOLEAN :
          Start(Harness(<<>>, <<32, 1, 128>>, 119, 0, 0, 36, sp, checks))
    \* JSR at the top of the address space
    \/ \E origin \in {65532, 65533, 65534, 65535}, sp \in {253, 1}, checks \in BOOLEAN :
          Start(Harness(At(512, <<96>>) \o At(origin, <<32, 0, 2>>), JmpTo(origin),
                        119, 0, 0, 36, sp, checks))
    \* RTI with a status byte and an address on the stack, for stack pointers that wrap
    \* during the pops
    \/ \E s \in {0, 36, 165, 255}, w \in {32769, 4660, 0, 65535, 32768},
          sp \in {250, 252, 253, 254, 255}, checks \in BOOLEAN :
          Start(Harness(<< <<STACK + U8(sp + 1), s>>, <<STACK + U8(sp + 2), w % 256>>,
                           <<STACK + U8(sp + 3), w \div 256>> >>,
                        <<64, 0, 0>>, 119, 1, 2, 36, sp, checks))

SpecJump == InitJump /\ [][Next]_vars

\* the pointer operand of JMP indirect
Pointer == WordAt(before, U16(before.program_counter + 1))

\* where JMP indirect goes by the rule of the hardware
IndirectTarget ==
    IF Pointer % 256 = 255
    THEN mem_read(before, Pointer) + 256 * mem_read(before, Pointer - 255)
    ELSE mem_read(before, Pointer) + 256 * mem_read(before, Pointer + 1)

Target ==
    CASE code = 76 -> WordAt(before, U16(before.program_counter + 1))
      [] code = 108 -> IndirectTarget
      [] code = 32 -> WordAt(cpu, U16(before.program_counter + 1))

\* C5: after JMP absolute, JMP indirect or JSR to any target T, including the address
\* right after the opcode byte, the dispatch step ends with the program counter at T.
C5_RedirectKeepsTarget == Stepped({76, 108, 32}) => program_counter = Target

\* C24: with a status byte s on top of the stack and the low and high byte of an
\* address w under it, RTI sets status to s and the program counter to w itself, and
\* raises the stack pointer by 3 modulo 256.
C24_RtiRestores ==
    (Executed({64}) \/ Stepped({64})) =>
        LET sp == before.stack_pointer
            s == mem_read(before, STACK + U8(sp + 1))
            w == mem_read(before, STACK + U8(sp + 2))
                 + 256 * mem_read(before, STACK + U8(sp + 3))
        IN  /\ status = s
            /\ program_counter = w
            /\ stack_pointer = U8(sp + 3)

\* from stack pointer 0xFE the pops read 0x01FF, 0x0100 and 0x0101: status 0xA5 and the
\* address 0x1234
C24_Witness ==
    /\ Stepped({64})
    /\ before.stack_pointer = 254
    /\ mem_read(before, STACK + 255) = 165
    /\ mem_read(before, STACK) = 52 /\ mem_read(before, STACK + 1) = 18
    /\ status = 165
    /\ program_counter = 4660
    /\ stack_pointer = 1

\* the word on the stack just above the stack pointer sp, in the memory of c
StackWord(c, sp) ==
    mem_read(c, STACK + U8(sp + 1)) + 256 * mem_read(c, STACK + U8(sp + 2))

\* the JSR at trace[i] is the call this RTS returns from: the stack pointer is what that
\* JSR left and the two bytes it pushed are intact
ReturnsFrom(i) ==
    /\ trace[i].code = 32
    /\ before.stack_pointer = U8(trace[i].sp + 254)
    /\ StackWord(before, before.stack_pointer) = U16(trace[i].pc + 2)

\* C7: JSR at A (target T other than A + 1) pushes the word A + 2 and sets the program
\* counter to T; an RTS that finds the stack pointer and the pushed bytes as that JSR
\* left them sets the program counter to A + 3 and the stack pointer back to its value
\* before the JSR.
C7_CallReturnPairing ==
    /\ (Stepped({32}) /\ Target # U16(before.program_counter + 1)) =>
            /\ StackWord(cpu, stack_pointer) = U16(before.program_counter + 2)
            /\ stack_pointer = U8(before.stack_pointer + 254)
            /\ program_counter = Target
    /\ Stepped({96}) =>
            \A i \in 1..(Len(trace) - 1) :
                ReturnsFrom(i) =>
                    /\ program_counter = U16(trace[i].pc + 3)
                    /\ stack_pointer = trace[i].sp

\* JSR at 0x8000 with the stack pointer at 0x00, so that the push wraps, and the RTS
\* after a NOP: back at 0x8003 with the stack pointer at 0x00
C7_Witness ==
    /\ Stepped({96})
    /\ Len(trace) = 3
    /\ ReturnsFrom(1)
    /\ trace[1].pc = 32768 /\ trace[1].sp = 0
    /\ program_counter = 32771
    /\ stack_pointer = 0

(***************************************************************************)
(* Power-up: new, load, reset, run, and a reset after the run.             *)
(***************************************************************************)
\* instructions that change the registers, the status, the stack pointer and the vector
Menu == {<<234>>, <<169, 128>>, <<162, 255>>, <<160, 5>>, <<154>>, <<72>>, <<8>>, <<104>>,
         <<40>>, <<64>>, <<56>>, <<141, 252, 255>>, <<140, 253, 255>>}

\* a program of n bytes: NOPs, the last byte being `last`
LongProgram(n, last) == [i \in 1..n |-> IF i = n THEN last ELSE 234]

\* 0x7FFC bytes end right below the reset vector, 0x7FFD bytes reach into it
LongPrograms == {LongProgram(32764, 1), LongProgram(32765, 1)}

Programs == {<<>>} \cup Menu \cup {i \o j : i \in Menu, j \in Menu}

InitBoot ==
    \/ \E program \in LongPrograms, checks \in BOOLEAN :
          StartAt(new(<<>>, checks), "load", program)
    \/ \E program \in Programs, r \in {<<0, 0, 0, STACK_RESET>>, <<1, 3, 255, 128>>},
          junk \in BOOLEAN, checks \in BOOLEAN :
          LET c0 == new(<<>>, checks)
              \* what the memory held before the program is loaded
              c1 == IF junk
                    THEN write_cells(c0, At(32768, <<1, 2>>) \o At(65532, <<52, 18>>))
                    ELSE c0
          IN  StartAt([c1 EXCEPT !.register_a = r[1], !.register_x = r[2],
                                 !.register_y = r[3], !.stack_pointer = r[4]],
                      "load", program)

SpecBoot == InitBoot /\ [][NextBoot]_vars

\* reset has just been called
ResetDone == phase = "reset" \/ (phase = "fetch" /\ trace = <<>>)

\* C13: after reset, called in any CPU state, the accumulator, index X and index Y are
\* 0, the status is 0b0010_0100 and the program counter is the little-endian word
\* stored at 0xFFFC.
C13_ResetClearsRegisters ==
    ResetDone =>
        /\ register_a = 0
        /\ register_x = 0
        /\ register_y = 0
        /\ status = 36
        /\ program_counter = WordAt(cpu, 65532)

\* C14: after reset, called in any reachable CPU state, the stack pointer is 0xFD.
C14_ResetStackPointer == ResetDone => stack_pointer = STACK_RESET

\* load(program) has returned
Loaded == phase = "loaded"
\* the first instruction of the run has been fetched
FirstFetched == Len(trace) >= 1

\* what load and the reset after it are to achieve for the program in `data`
LoadPlacesProgram ==
    /\ Loaded =>
            /\ \A i \in 0..(Len(data) - 1) : mem_read(cpu, 32768 + i) = data[i + 1]
            /\ WordAt(cpu, 65532) = 32768
    /\ (ResetDone /\ phase = "fetch") => program_counter = 32768
    /\ (FirstFetched /\ Len(data) >= 1) =>
            /\ trace[1].pc = 32768
            /\ trace[1].code = data[1]

\* C15 as stated: after load(program), byte i of the program is at 0x8000 + i for every
\* i and the word at 0xFFFC is 0x8000; the reset that follows sets the program counter
\* to 0x8000 and the first instruction fetched is program[0].
C15_LoadAnyProgram == LoadPlacesProgram

\* C15 amended: the same, for programs of at most 0x7FFC bytes, which end below the
\* reset vector at 0xFFFC.
C15_LoadBelowVector == Len(data) <= 32764 => LoadPlacesProgram

\* LDA #0x80; PHA: all three bytes are in place, the vector points to 0x8000 and the
\* run has fetched the LDA there
C15_Witness ==
    /\ FirstFetched
    /\ data = <<169, 128, 72>>
    /\ \A i \in 0..2 : mem_read(cpu, 32768 + i) = data[i + 1]
    /\ WordAt(cpu, 65532) = 32768
    /\ trace[1].pc = 32768
    /\ trace[1].code = 169

\* the instructions of the trace that have completed: all but one in dispatch,
\* halted or panicked
Completed ==
    IF trace # <<>> /\ phase \in {"advance", "callback", "returned", "panicked", "reset"}
    THEN Len(trace) - 1 ELSE Len(trace)

\* one invocation per completed instruction, none of them a halt
ObservedOnce ==
    /\ callbacks = Completed
    /\ \A i \in 1..Completed : trace[i].code # 0

\* C18: the callback is invoked exactly once per completed non-halt instruction, after
\* its execute and advance phases, with the program counter at which the next fetch
\* reads, and before that fetch; at the halt the number of invocations is the number
\* of instructions executed before it.
C18_ObserverOrdering ==
    [][/\ ObservedOnce'
       /\ callbacks' # callbacks =>
              /\ callbacks' = callbacks + 1
              /\ phase = "callback" /\ phase' = "fetch"
              /\ program_counter' = program_counter
       /\ phase' = "callback" => phase = "advance"
       /\ (phase' = "fetch" /\ phase # "loaded") => phase = "callback"
       /\ (phase = "fetch" /\ phase' # "fetch") =>
              trace'[Len(trace')].pc = program_counter
       /\ phase' = "returned" => callbacks' = Len(trace') - 1]_vars

\* LDA #0x80; PHA; BRK: two invocations, none for the halt
C18_Witness ==
    /\ phase = "returned"
    /\ data = <<169, 128, 72>>
    /\ Len(trace) = 3
    /\ callbacks = 2

\* C19: in every state reached from new() by load, reset and executed instructions,
\* bit 5 of the status register is 1, as at initialization.
C19_ReservedBit == Bit(status, 5) = 1

(***************************************************************************)
(* Termination of run: the loop keeps iterating until it returns or panics.*)
(***************************************************************************)
\* instructions that are no jump, call, return, branch or halt
StraightMenu == {<<234>>, <<169, 128>>, <<232>>, <<133, 16>>, <<72>>, <<189, 0, 2>>}

RunPrograms ==
    {<<>>} \cup StraightMenu \cup {i \o j : i \in StraightMenu, j \in StraightMenu}
    \* three instructions before the halt
    \cup {<<234, 169, 128, 72>>, <<232, 189, 0, 2, 234>>}
    \* a byte without descriptor, and LDY absolute, which has no arm
    \cup {<<234, 2>>, <<172, 0, 2>>}
    \* JMP to its own address, JMP to a halt
    \cup {JmpTo(32768), <<234>> \o JmpTo(32769), JmpTo(512)}

InitRun ==
    \E program \in RunPrograms, checks \in BOOLEAN :
        Start(Harness(<<>>, program, 0, 0, 0, 36, STACK_RESET, checks))

\* the loop never pauses between its statements
SpecRun == InitRun /\ [][Next]_vars /\ WF_vars(Next)

StraightOps == Decodable \ (BranchOps \cup RedirectOps \cup {0})

\* how many instructions of StraightOps lie between address addr and the first 0x00
\* in the memory of c, at most k; -1 if something else comes first
RECURSIVE HaltAfter(_, _, _)
HaltAfter(c, addr, k) ==
    LET op == mem_read(c, addr)
    IN  IF op = 0 THEN 0
        ELSE IF k = 0 \/ op \notin StraightOps THEN -1
        ELSE LET r == HaltAfter(c, U16(addr + OPCODES_MAP[op].len), k - 1)
             IN  IF r < 0 THEN -1 ELSE r + 1

\* every instruction dispatched so far was a JMP to its own address
OnlySelfJumps ==
    /\ trace # <<>>
    /\ \A i \in 1..Len(trace) :
           trace[i].code = 76 /\ WordAt(cpu, U16(trace[i].pc + 1)) = trace[i].pc

\* the program at the address of the first fetch is n straight instructions and 0x00
StraightLine(n) == HaltAfter(cpu, (IF trace = <<>> THEN program_counter ELSE trace[1].pc), n) = n

Push ==
    /\ phase = "pushing"
    /\ Install(stack_push(cpu, data.bytes[data.pushed + 1]))
    /\ data' = [data EXCEPT !.pushed = @ + 1]
    /\ phase' = IF data.pushed + 1 = Len(data.bytes) THEN "popping" ELSE "pushing"
    /\ UNCHANGED <<overflow_checks, code, program_counter_state, before, trace, callbacks,
                   popped>>

Pop ==
    /\ phase = "popping"
    /\ LET r == stack_pop(cpu)
       IN  /\ Install(r.cpu)
           /\ popped' = r.value
           /\ data' = [data EXCEPT !.returned = Append(@, r.value)]
           /\ phase' = IF Len(data.returned) + 1 = Len(data.bytes) THEN "done" ELSE "popping"
    /\ UNCHANGED <<overflow_checks, code, program_counter_state, before, trace, callbacks>>

NextStackOps == Push \/ Pop \/ Execute \/ Advance \/ Callback

\* the end of page 0, page 1 and the start of page 2, all cells different from their
\* neighbours a page away
Pages == [a \in 250..520 |-> (a * 37 + (a \div 256) * 5 + 11) % 256]

StackOps == {72, 8, 104, 40, 32, 96, 64}

InitStackOps ==
    \* n pushes, then n pops; 257 pushes overwrite the first byte pushed
    \/ \E n \in {1, 2, 3, 255, 256, 257}, s \in {253, 0, 1, 255}, checks \in BOOLEAN :
          LET c0 == new(Pages, checks)
              bytes == [i \in 1..n |-> (i * 7 + (i \div 200) * 5 + 3) % 256]
          IN  /\ StartAt([c0 EXCEPT !.stack_pointer = s], "pushing",
                         [bytes |-> bytes, pushed |-> 0, returned |-> <<>>])
              /\ n <= 256 \/ (s = 253 /\ checks)
    \* one stack instruction, for stack pointers at both ends of the page
    \/ \E op \in StackOps, s \in {253, 0, 1, 2, 254, 255}, a \in {0, 119, 200},
          p \in {36, 231}, checks \in BOOLEAN :
          LET c0 == reset(load(new(Pages, checks), <<op, 52, 18>>))
          IN  Start([c0 EXCEPT !.register_a = a, !.register_x = 1, !.register_y = 2,
                               !.status = p, !.stack_pointer = s])
    \* PHA, a load of another byte, PLA
    \/ \E s \in {253, 0, 255}, a \in {0, 119, 200}, checks \in BOOLEAN :
          LET c0 == reset(load(new(Pages, checks), <<72, 169, 1, 104>>))
          IN  Start([c0 EXCEPT !.register_a = a, !.stack_pointer = s])
    \* PHP, PLP under every status byte p, which data records
    \/ \E p \in Byte, s \in {253, 0}, checks \in BOOLEAN :
          LET c0 == reset(load(new(Pages, checks), <<8, 40>>))
          IN  StartAt([c0 EXCEPT !.status = p, !.stack_pointer = s], "fetch", p)

SpecStackOps == InitStackOps /\ [][NextStackOps]_vars

\* the stack cell at pointer value sp
Cell(sp) == STACK + U8(sp)
\* the memory after the step differs from the memory before it only in the cells `cells`
WritesOnly(cells) ==
    \A a \in (DOMAIN bus) \cup (DOMAIN bus') :
        a \notin cells => mem_read(cpu, a) = (IF a \in DOMAIN bus' THEN bus'[a] ELSE 0)

\* C27: push writes the byte at 0x0100 + SP and then sets SP to (SP - 1) mod 256; pop
\* sets SP to (SP + 1) mod 256 and then reads 0x0100 + SP; PHA, PHP, PLA, PLP, JSR, RTS
\* and RTI, for any stack pointer, write only stack-page cells and take what they pop
\* from stack-page cells.
C27_StackDiscipline ==
    [][LET sp == stack_pointer
       IN  /\ phase = "pushing" =>
                  /\ bus'[Cell(sp)] = data.bytes[data.pushed + 1]
                  /\ WritesOnly({Cell(sp)})
                  /\ stack_pointer' = (sp + 255) % 256
           /\ phase = "popping" =>
                  /\ stack_pointer' = (sp + 1) % 256
                  /\ popped' = mem_read(cpu, STACK + stack_pointer')
                  /\ bus' = bus
           /\ (phase = "fetch" /\ phase' = "advance" /\ code' \in StackOps) =>
                  /\ code' = 72 => /\ bus'[Cell(sp)] = register_a
                                   /\ WritesOnly({Cell(sp)})
                                   /\ stack_pointer' = U8(sp + 255)
                  /\ code' = 8 => /\ bus'[Cell(sp)] = status
                                  /\ WritesOnly({Cell(sp)})
                                  /\ stack_pointer' = U8(sp + 255)
                  /\ code' = 104 => /\ register_a' = mem_read(cpu, Cell(sp + 1))
                                    /\ bus' = bus
                                    /\ stack_pointer' = U8(sp + 1)
                  /\ code' = 40 => /\ \A i \in {0, 2, 3, 4, 5, 6, 7} :
                                         Bit(status', i) = Bit(mem_read(cpu, Cell(sp + 1)), i)
                                   /\ bus' = bus
                                   /\ stack_pointer' = U8(sp + 1)
                  /\ code' = 32 => /\ bus'[Cell(sp)] = U16(program_counter + 2) \div 256
                                   /\ bus'[Cell(sp + 255)] = U16(program_counter + 2) % 256
                                   /\ WritesOnly({Cell(sp), Cell(sp + 255)})
                                   /\ stack_pointer' = U8(sp + 254)
                  /\ code' = 96 => /\ program_counter' =
                                         U16(mem_read(cpu, Cell(sp + 1))
                                             + 256 * mem_read(cpu, Cell(sp + 2)) + 1)
                                   /\ bus' = bus
                                   /\ stack_pointer' = U8(sp + 2)
                  /\ code' = 64 => /\ status' = mem_read(cpu, Cell(sp + 1))
                                   /\ program_counter' =
                                         mem_read(cpu, Cell(sp + 2))
                                         + 256 * mem_read(cpu, Cell(sp + 3))
                                   /\ bus' = bus
                                   /\ stack_pointer' = U8(sp + 3)]_vars

\* PLA with the stack pointer at 0xFF read 0x0100, not 0x0200
C27_Witness ==
    /\ Executed({104})
    /\ before.stack_pointer = 255
    /\ stack_pointer = 0
    /\ register_a = mem_read(before, 256)
    /\ register_a # mem_read(before, 512)

\* C32: for every status value s, PHP followed immediately by PLP leaves the status
\* register equal to s and the stack pointer unchanged; PLP sets status to exactly the
\* byte popped from the stack.
C32_StatusRoundTrip ==
    /\ (Stepped({40}) /\ Len(trace) = 2 /\ trace[1].code = 8) =>
            /\ status = data
            /\ stack_pointer = trace[1].sp
    /\ Stepped({40}) => status = mem_read(before, Cell(before.stack_pointer + 1))

\* the sequence s in reverse order
Reverse(s) == [i \in 1..Len(s) |-> s[Len(s) + 1 - i]]

\* C28: from any starting stack pointer, n pushes (n <= 256) followed by n pops return
\* the pushed bytes in reverse order and leave the stack pointer at its starting
\* value; PHA followed by PLA restores the accumulator and the stack pointer.
C28_StackLifo ==
    /\ (phase = "done" /\ Len(data.bytes) <= 256) =>
            /\ data.returned = Reverse(data.bytes)
            /\ stack_pointer = before.stack_pointer
    /\ (Stepped({104}) /\ Len(trace) = 3 /\ trace[1].code = 72) =>
            /\ register_a = mem_read(before, Cell(trace[1].sp))
            /\ register_a # before.register_a
            /\ stack_pointer = trace[1].sp

\* 256 pushes from stack pointer 0x00 fill the page, and 256 pops return all of them
C28_Witness ==
    /\ phase = "done"
    /\ Len(data.bytes) = 256
    /\ before.stack_pointer = 0
    /\ stack_pointer = 0
    /\ data.returned[1] = data.bytes[256] /\ data.returned[256] = data.bytes[1]

(***************************************************************************)
(* Register transfers and flag instructions: what they leave alone.        *)
(***************************************************************************)
TransferOps == {170, 138, 168, 152, 186, 154}
FlagOps == {24, 216, 88, 184, 56, 248, 120}

InitFrame ==
    \* the four registers all different, or all zero, under several status bytes
    \/ \E op \in TransferOps, a \in {0, 17, 128}, x \in {0, 34, 255}, y \in {0, 51, 200},
          s \in {0, 68, 253}, p \in {0, 36, 125, 130, 255}, checks \in BOOLEAN :
          Start(Harness(Pointers, <<op>>, a, x, y, p, s, checks))
    \* every status byte
    \/ \E op \in FlagOps, p \in Byte, checks \in BOOLEAN :
          Start(Harness(Pointers, <<op>>, 17, 34, 51, p, 68, checks))

SpecFrame == InitFrame /\ [][Next]_vars

\* the status bits outside `bits` are as the instruction found them
StatusKeptOutside(bits) ==
    \A i \in (0..7) \ bits : Bit(status, i) = Bit(before.status, i)
\* the instruction was one byte long and went on to the next
NextOpcode == program_counter = U16(trace[Len(trace)].pc + 1)

\* C29: TAX, TXA, TAY, TYA and TSX copy the source register into the destination, leave
\* the source, every other register and the memory unchanged, and change only the zero
\* and negative bits of status; TXS copies X into the stack pointer and leaves status
\* entirely unchanged.
C29_RegisterTransfers ==
    /\ Stepped(TransferOps \ {154}) =>
            /\ register_a = (CASE code = 138 -> before.register_x
                               [] code = 152 -> before.register_y
                               [] OTHER -> before.register_a)
            /\ register_x = (CASE code = 170 -> before.register_a
                               [] code = 186 -> before.stack_pointer
                               [] OTHER -> before.register_x)
            /\ register_y = (IF code = 168 THEN before.register_a ELSE before.register_y)
            /\ stack_pointer = before.stack_pointer
            /\ StatusKeptOutside({1, 7})
            /\ MemoryKept
            /\ NextOpcode
    /\ Stepped({154}) =>
            /\ stack_pointer = before.register_x
            /\ register_a = before.register_a
            /\ register_x = before.register_x
            /\ register_y = before.register_y
            /\ status = before.status
            /\ MemoryKept
            /\ NextOpcode

\* TXS of X = 0 over a status with the zero flag clear: the stack pointer becomes 0 and
\* the zero flag stays clear
C29_Witness ==
    /\ Stepped({154})
    /\ before.register_x = 0
    /\ before.stack_pointer = 253
    /\ stack_pointer = 0
    /\ before.status = 36
    /\ status = 36

\* the status bit a flag instruction names, and the value it gives it
FlagBit == [op \in FlagOps |->
               CASE op \in {24, 56} -> 0
                 [] op \in {88, 120} -> 2
                 [] op \in {216, 248} -> 3
                 [] op = 184 -> 6]
FlagValue == [op \in FlagOps |-> IF op \in {56, 248, 120} THEN 1 ELSE 0]

\* C30: CLC, CLD, CLI, CLV clear and SEC, SED, SEI set exactly the carry, decimal,
\* interrupt-disable or overflow bit named by the instruction, and leave the other seven
\* status bits, the registers other than the program counter and the memory unchanged,
\* for every prior status value.
C30_FlagInstructions ==
    Stepped(FlagOps) =>
        /\ Bit(status, FlagBit[code]) = FlagValue[code]
        /\ StatusKeptOutside({FlagBit[code]})
        /\ RegistersKept
        /\ MemoryKept
        /\ NextOpcode

\* CLV over a status of all ones clears bit 6 alone
C30_Witness ==
    /\ Stepped({184})
    /\ before.status = 255
    /\ status = 191

(***************************************************************************)
(* Stores: what they write and what they leave alone.                      *)
(***************************************************************************)
\* the register a store opcode names, as the instruction found it
StoredRegister ==
    CASE code \in StaOps -> before.register_a
      [] code \in StxOps -> before.register_x
      [] code \in StyOps -> before.register_y

\* C31: STA, STX and STY write the value of the named register to the effective
\* address and change nothing else: status, accumulator, X, Y, stack pointer and every
\* other memory cell are unchanged.
C31_StoresFrame ==
    Stepped(StaOps \cup StxOps \cup StyOps) =>
        /\ mem_read(cpu, OperandAddress) = StoredRegister
        /\ \A a \in (DOMAIN bus) \cup (DOMAIN before.bus) :
               a # OperandAddress => mem_read(cpu, a) = mem_read(before, a)
        /\ RegistersKept
        /\ status = before.status

\* STA (zp),Y of 0x80 over a cell that held 1, with the zero flag set and the negative
\* flag clear on entry: the cell holds 0x80 and the flags are as they were
C31_Witness ==
    /\ Stepped({145})
    /\ before.register_a = 128
    /\ Operand = 1
    /\ mem_read(cpu, OperandAddress) = 128
    /\ before.status = 103
    /\ status = 103

(***************************************************************************)
(* adc and sbc called directly on every accumulator, operand and carry.    *)
(***************************************************************************)
\* data.a, data.m and data.c are the accumulator, the operand byte and the carry the
\* call starts from
Adc ==
    /\ phase = "adc"
    /\ Install(adc(cpu, "Immediate"))
    /\ phase' = "done"
    /\ UNCHANGED <<overflow_checks, code, program_counter_state, before, trace, callbacks,
                   data, popped>>

Sbc ==
    /\ phase = "sbc"
    /\ Install(sbc(cpu, "Immediate"))
    /\ phase' = "done"
    /\ UNCHANGED <<overflow_checks, code, program_counter_state, before, trace, callbacks,
                   data, popped>>

NextAlu == Adc \/ Sbc

InitAlu ==
    \E fn \in {"adc", "sbc"}, a \in Byte, m \in Byte, c \in {0, 1} :
        LET op == IF fn = "adc" THEN 105 ELSE 233
            c0 == Harness(<<>>, <<op, m>>, a, 0, 0, 36 + c, STACK_RESET, FALSE)
        IN  StartAt(Fetched(c0), fn, [fn |-> fn, a |-> a, m |-> m, c |-> c])

SpecAlu == InitAlu /\ [][NextAlu]_vars

\* a byte read as a two's complement number
Signed(b) == IF b >= 128 THEN b - 256 ELSE b

\* C34: for every a, m in 0..255 and carry-in c, the overflow flag after ADC is 1 iff
\* signed(a) + signed(m) + c lies outside -128..127.
C34_AdcSignedOverflow ==
    (phase = "done" /\ data.fn = "adc") =>
        LET t == Signed(data.a) + Signed(data.m) + data.c
        IN  get_flg(cpu, "OVERFLOW") = (IF t < -128 \/ t > 127 THEN 1 ELSE 0)

\* 0x7F + 0x00 with the carry set: 127 + 0 + 1 = 128 overflows only through the carry
C34_Witness ==
    /\ phase = "done"
    /\ data = [fn |-> "adc", a |-> 127, m |-> 0, c |-> 1]
    /\ register_a = 128
    /\ get_flg(cpu, "OVERFLOW") = 1
    /\ get_flg(cpu, "CARRY") = 0

\* C35: for every a, m in 0..255 and carry-in c, the accumulator after SBC equals
\* (a - m - (1 - c)) mod 256 and the carry flag is 1 iff no borrow occurred, i.e. iff
\* a >= m + (1 - c).
C35_SbcArithmetic ==
    (phase = "done" /\ data.fn = "sbc") =>
        /\ register_a = (data.a - data.m - (1 - data.c) + 512) % 256
        /\ get_flg(cpu, "CARRY") = (IF data.a >= data.m + (1 - data.c) THEN 1 ELSE 0)

\* 0x50 - 0x50 with the carry clear borrows: the result is 0xFF and the carry is clear
C35_Witness ==
    /\ phase = "done"
    /\ data = [fn |-> "sbc", a |-> 80, m |-> 80, c |-> 0]
    /\ register_a = 255
    /\ get_flg(cpu, "CARRY") = 0

(***************************************************************************)
(* The addressing resolver called directly.                                *)
(***************************************************************************)
Modes == {"Immediate", "ZeroPage", "ZeroPage_X", "ZeroPage_Y", "Absolute", "Absolute_X",
          "Absolute_Y", "Indirect_X", "Indirect_Y", "NoneAddressing"}

\* pages 0 and 1 filled with bytes that differ from cell to cell, and a pointer to
\* 0xFFFF at 0x10
Image == [a \in 0..271 |-> IF a \in {16, 17} THEN 255 ELSE (a * 37 + 11) % 256]

Resolve ==
    /\ phase = "resolve"
    /\ IF get_operand_address_panics(cpu, data)
       THEN phase' = "panicked" /\ popped' = popped
       ELSE phase' = "resolved" /\ popped' = get_operand_address(cpu, data)
    /\ before' = cpu
    /\ UNCHANGED <<register_a, register_x, register_y, status, program_counter,
                   stack_pointer, bus, overflow_checks, code, program_counter_state,
                   trace, callbacks, data>>

NextResolve == Resolve

InitResolve ==
    \E mode \in Modes, pc \in {32769, 255, 65534, 65535}, b1 \in {16, 128, 254, 255},
       b2 \in {0, 2, 255}, x \in {0, 1, 3, 128, 255}, y \in {0, 1, 128, 255},
       checks \in BOOLEAN :
        LET c0 == write_cells(new(Image, checks), At(pc, <<b1, b2>>))
        IN  StartAt([c0 EXCEPT !.register_x = x, !.register_y = y, !.program_counter = pc],
                    "resolve", mode)

SpecResolve == InitResolve /\ [][NextResolve]_vars

\* the byte at address a, and the little-endian word whose high byte is at address h
M(a) == mem_read(cpu, a)
Word(a, h) == M(a) + 256 * M(h)

\* the address the mode table gives for mode `data` at the current program counter
TableAddress ==
    LET PC == program_counter
        X == register_x
        Y == register_y
    IN  CASE data = "Immediate" -> PC
          [] data = "ZeroPage" -> M(PC)
          [] data = "ZeroPage_X" -> (M(PC) + X) % 256
          [] data = "ZeroPage_Y" -> (M(PC) + Y) % 256
          [] data = "Absolute" -> Word(PC, (PC + 1) % 65536)
          [] data = "Absolute_X" -> (Word(PC, (PC + 1) % 65536) + X) % 65536
          [] data = "Absolute_Y" -> (Word(PC, (PC + 1) % 65536) + Y) % 65536
          [] data = "Indirect_X" -> Word((M(PC) + X) % 256, (M(PC) + X + 1) % 256)
          [] data = "Indirect_Y" -> (Word(M(PC), (M(PC) + 1) % 256) + Y) % 65536

\* C21: get_operand_address returns the address the mode table gives, a zero-page
\* address for the ZeroPage modes, and modifies no register and no memory.
C21_ResolverMatchesTable ==
    phase = "resolved" =>
        /\ popped = TableAddress
        /\ data \in {"ZeroPage", "ZeroPage_X", "ZeroPage_Y"} => popped <= 255
        /\ cpu = before

\* Indirect,X through the pointer at 0xFF: low byte from 0x00FF, high byte from 0x0000
\* and not from 0x0100
C21_Witness ==
    /\ phase = "resolved"
    /\ data = "Indirect_X"
    /\ (M(program_counter) + register_x) % 256 = 255
    /\ M(0) # M(256)
    /\ popped = M(255) + 256 * M(0)

(***************************************************************************)
(* store and ld called directly, one after the other, through one mode.    *)
(***************************************************************************)
Kinds == {"REGISTER_A", "REGISTER_X", "REGISTER_Y"}

\* the register of c that `kind` names
RegisterOf(c, kind) ==
    CASE kind = "REGISTER_A" -> c.register_a
      [] kind = "REGISTER_X" -> c.register_x
      [] kind = "REGISTER_Y" -> c.register_y

\* store(data.mode, data.kind)
Store ==
    /\ phase = "store"
    /\ IF get_operand_address_panics(cpu, data.mode)
       THEN phase' = "panicked" /\ Install(cpu)
       ELSE phase' = "ld" /\ Install(store(cpu, data.mode, data.kind))
    /\ before' = cpu
    /\ UNCHANGED <<overflow_checks, code, program_counter_state, trace, callbacks, data,
                   popped>>

\* ld(data.mode, data.kind)
Ld ==
    /\ phase = "ld"
    /\ IF get_operand_address_panics(cpu, data.mode)
       THEN phase' = "panicked" /\ Install(cpu)
       ELSE phase' = "done" /\ Install(ld(cpu, data.mode, data.kind))
    /\ UNCHANGED <<overflow_checks, code, program_counter_state, before, trace, callbacks,
                   data, popped>>

NextRoundTrip == Store \/ Ld

InitRoundTrip ==
    \E mode \in Modes \ {"NoneAddressing"}, kind \in Kinds, pc \in {32769, 255, 15, 65535},
       b1 \in {16, 254, 255}, b2 \in {0, 255}, x \in {0, 1, 255}, y \in {0, 3, 255},
       checks \in BOOLEAN :
        LET c0 == write_cells(new(Image, checks), At(pc, <<b1, b2>>))
        IN  StartAt([c0 EXCEPT !.register_a = 119, !.register_x = x, !.register_y = y,
                               !.program_counter = pc],
                    "store", [mode |-> mode, kind |-> kind])

SpecRoundTrip == InitRoundTrip /\ [][NextRoundTrip]_vars

\* where the store wrote, and the cells its address was computed from: the operand
\* bytes and, for the indirect modes, the two bytes of the zero-page pointer
StoreAddress == get_operand_address(before, data.mode)
AddressCells ==
    LET b == mem_read(before, before.program_counter)
        p == IF data.mode = "Indirect_X" THEN U8(b + before.register_x) ELSE b
    IN  {before.program_counter, U16(before.program_counter + 1)}
        \cup (IF data.mode \in {"Indirect_X", "Indirect_Y"} THEN {p, U8(p + 1)} ELSE {})

\* C22: a store of a register through an addressing mode followed by a load of that
\* register through the same mode, the effective address lying outside the operand
\* bytes and the pointer cells, loads the value stored (and sets zero and negative
\* from it).
C22_StoreLoadRoundTrip ==
    (phase = "done" /\ StoreAddress \notin AddressCells) =>
        LET v == RegisterOf(before, data.kind)
        IN  /\ RegisterOf(cpu, data.kind) = v
            /\ mem_read(cpu, StoreAddress) = v
            /\ get_flg(cpu, "ZERO") = (IF v = 0 THEN 1 ELSE 0)
            /\ get_flg(cpu, "NEGATIV") = Bit(v, 7)

\* Indirect,Y: the pointer at 0x10 holds 0xFFFF and Y = 3, so the accumulator goes to
\* 0x0002, which held another byte, and comes back from there
C22_Witness ==
    /\ phase = "done"
    /\ data = [mode |-> "Indirect_Y", kind |-> "REGISTER_A"]
    /\ mem_read(before, before.program_counter) = 16
    /\ before.register_y = 3
    /\ StoreAddress = 2
    /\ mem_read(before, 2) # 119
    /\ mem_read(cpu, 2) = 119
    /\ register_a = 119

(***************************************************************************)
(* The stack engine called directly: stack_push_u16 then stack_pop_u16.    *)
(***************************************************************************)
Words == {0, 1, 255, 256, 4660, 32770, 65280, 65535}

PushU16 ==
    /\ phase = "push"
    /\ Install(stack_push_u16(cpu, data))
    /\ before' = cpu
    /\ phase' = "pop"
    /\ UNCHANGED <<overflow_checks, code, program_counter_state, trace, callbacks, data,
                   popped>>

PopU16 ==
    /\ phase = "pop"
    /\ LET r == stack_pop_u16(cpu)
       IN  /\ Install(r.cpu)
           /\ popped' = r.value
    /\ phase' = "done"
    /\ UNCHANGED <<overflow_checks, code, program_counter_state, before, trace, callbacks,
                   data>>

NextStack == PushU16 \/ PopU16

\* any stack pointer, and a stack page that already holds other bytes
InitStack ==
    \E v \in Words, s \in Byte, junk \in {0, 238}, checks \in BOOLEAN :
        LET c0 == new(<<>>, checks)
            c1 == write_cells(c0, << <<STACK + s, junk>>, <<STACK + U8(s + 255), junk>>,
                                    <<STACK + U8(s + 1), junk>> >>)
        IN  StartAt([c1 EXCEPT !.stack_pointer = s], "push", v)

SpecStack == InitStack /\ [][NextStack]_vars

\* C8: for every 16-bit value v and every starting stack pointer s, stack_push_u16(v)
\* followed by stack_pop_u16() returns v and leaves the stack pointer at s.
C8_StackRoundTrip ==
    phase = "done" => (popped = data /\ stack_pointer = before.stack_pointer)

\* pushed from stack pointer 0x00, where the pointer wraps to 0xFF and on to 0xFE
C8_Witness ==
    /\ phase = "done"
    /\ before.stack_pointer = 0
    /\ data = 4660
    /\ popped = 4660
    /\ stack_pointer = 0
    /\ mem_read(cpu, STACK) = 18
    /\ mem_read(cpu, STACK + 255) = 52

====
